---------------------------- MODULE Spec2Model ----------------------------
(***************************************************************************)
(* Model of personality-mcp/mcp_personality_server.py: a line-delimited    *)
(* JSON-RPC server (MCPServer.run / handle_request) over a registry of     *)
(* five in-memory personalities (PersonalityManager).                      *)
(*                                                                         *)
(* Python values that arrive from json.loads are modelled as tagged        *)
(* records [t |-> type, v |-> value]; a JSON object keeps its members as   *)
(* a sequence of <<key, value>> pairs so that insertion order (which       *)
(* json.dumps prints) is part of the value.  Text the server builds is a   *)
(* TLA+ string built with \o, so slices such as query[:100] are real.      *)
(***************************************************************************)
EXTENDS Integers, Sequences, FiniteSets, TLC

(***************************************************************************)
(* Bounds of the model.                                                    *)
(***************************************************************************)
\* number of lines the environment supplies on stdin before the model stops
MaxLines == 3
\* the clock is read in ticks; single ticks stop at MaxClock
MaxClock == 1
\* ticks in one second of the wall clock (resolution of datetime.now())
TicksPerSecond == 2
\* whole seconds that may pass between two lines
MaxSeconds == 1

(***************************************************************************)
(* Program constants.                                                      *)
(***************************************************************************)
PARSE_ERROR == -32700
INTERNAL_ERROR == -32603
\* query[:100] in generate_demo_response
QUERY_PREVIEW == 100
\* conversation_history[-3:] in get_personality_context
RECENT_INTERACTIONS == 3
\* tasks_assigned[-3:] in the status report
STATUS_TASKS == 3
\* indent=2 of json.dumps
JSON_INDENT == 2

(***************************************************************************)
(* Python / JSON values.                                                   *)
(***************************************************************************)
JStr(s) == [t |-> "str", v |-> s]
JInt(n) == [t |-> "int", v |-> n]
JBool(b) == [t |-> "bool", v |-> b]
JNone == [t |-> "NoneType", v |-> "None"]
JList(items) == [t |-> "list", v |-> items]
\* members: a sequence of <<key, value>> pairs, keys are TLA+ strings
JDict(members) == [t |-> "dict", v |-> members]

IsStr(x) == x.t = "str"
IsDict(x) == x.t = "dict"

\* bool(x): Python truthiness, as used by `if context`, `if details`,
\* `if focus_areas`, `if self.collaborative_session`
Truthy(x) ==
    CASE x.t = "str" -> x.v /= ""
      [] x.t = "int" -> x.v /= 0
      [] x.t = "bool" -> x.v
      [] x.t = "NoneType" -> FALSE
      [] x.t = "list" -> x.v /= <<>>
      [] x.t = "dict" -> x.v /= <<>>

\* the index of the last member of a dict with key k, 0 when there is none
\* (json.loads keeps the last of duplicate keys)
RECURSIVE KeyIndex(_, _, _)
KeyIndex(members, k, i) ==
    IF i = 0 THEN 0
    ELSE IF members[i][1] = k THEN i
    ELSE KeyIndex(members, k, i - 1)

HasKey(d, k) == KeyIndex(d.v, k, Len(d.v)) /= 0

\* dict.get(k, default)
DictGet(d, k, default) ==
    LET i == KeyIndex(d.v, k, Len(d.v))
    IN IF i = 0 THEN default ELSE d.v[i][2]

\* the message of the AttributeError raised by x.<attr> on a non-dict / non-str
AttributeErrorText(x, attr) ==
    "'" \o x.t \o "' object has no attribute '" \o attr \o "'"

(***************************************************************************)
(* Text helpers.                                                           *)
(***************************************************************************)
RECURSIVE Spaces(_)
Spaces(n) == IF n <= 0 THEN "" ELSE " " \o Spaces(n - 1)

\* s[:n]
Prefix(s, n) == IF Len(s) <= n THEN s ELSE SubSeq(s, 1, n)

\* seq[-n:]
LastN(seq, n) ==
    IF Len(seq) <= n THEN seq ELSE SubSeq(seq, Len(seq) - n + 1, Len(seq))

\* sep.join(strings)
RECURSIVE Join(_, _)
Join(strings, sep) ==
    IF strings = <<>> THEN ""
    ELSE IF Len(strings) = 1 THEN strings[1]
    ELSE strings[1] \o sep \o Join(Tail(strings), sep)

\* one character of str.upper()
UpperChar(c) ==
    LET lower == "abcdefghijklmnopqrstuvwxyz"
        upper == "ABCDEFGHIJKLMNOPQRSTUVWXYZ"
        hit == {i \in 1..26 : SubSeq(lower, i, i) = c}
    IN IF hit = {} THEN c
       ELSE LET i == CHOOSE j \in hit : TRUE IN SubSeq(upper, i, i)

\* str.upper()
RECURSIVE Upper(_)
Upper(s) ==
    IF Len(s) = 0 THEN ""
    ELSE IF Len(s) = 1 THEN UpperChar(s)
    ELSE LET h == Len(s) \div 2
         IN Upper(SubSeq(s, 1, h)) \o Upper(SubSeq(s, h + 1, Len(s)))

\* one character of a JSON string literal as json.dumps writes it
JsonEscapeChar(c) ==
    CASE c = "\"" -> "\\\""
      [] c = "\\" -> "\\\\"
      [] c = "\n" -> "\\n"
      [] c = "\t" -> "\\t"
      [] c = "\r" -> "\\r"
      [] OTHER -> c

RECURSIVE JsonEscape(_)
JsonEscape(s) ==
    IF Len(s) = 0 THEN ""
    ELSE IF Len(s) = 1 THEN JsonEscapeChar(s)
    ELSE LET h == Len(s) \div 2
         IN JsonEscape(SubSeq(s, 1, h)) \o JsonEscape(SubSeq(s, h + 1, Len(s)))

\* json.dumps(x, indent=2) at nesting depth `depth`
RECURSIVE JsonDumps(_, _)
RECURSIVE JsonItems(_, _, _, _)
JsonItems(items, isDict, depth, i) ==
    Spaces(JSON_INDENT * depth)
    \o (IF isDict
        THEN "\"" \o JsonEscape(items[i][1]) \o "\": "
             \o JsonDumps(items[i][2], depth)
        ELSE JsonDumps(items[i], depth))
    \o (IF i = Len(items) THEN ""
        ELSE ",\n" \o JsonItems(items, isDict, depth, i + 1))

JsonDumps(x, depth) ==
    CASE x.t = "str" -> "\"" \o JsonEscape(x.v) \o "\""
      [] x.t = "int" -> ToString(x.v)
      [] x.t = "bool" -> IF x.v THEN "true" ELSE "false"
      [] x.t = "NoneType" -> "null"
      [] x.t = "list" ->
            IF x.v = <<>> THEN "[]"
            ELSE "[\n" \o JsonItems(x.v, FALSE, depth + 1, 1) \o "\n"
                 \o Spaces(JSON_INDENT * depth) \o "]"
      [] x.t = "dict" ->
            IF x.v = <<>> THEN "{}"
            ELSE "{\n" \o JsonItems(x.v, TRUE, depth + 1, 1) \o "\n"
                 \o Spaces(JSON_INDENT * depth) \o "}"

\* str(x) as an f-string formats it.  Containers are printed with repr();
\* the repr of a str here is the text in single quotes, which is what
\* Python prints for text without quotes, backslashes or control characters.
RECURSIVE PyStr(_)
RECURSIVE PyRepr(_)
RECURSIVE PyReprItems(_, _, _)
PyReprItems(items, isDict, i) ==
    (IF isDict
     THEN "'" \o items[i][1] \o "': " \o PyRepr(items[i][2])
     ELSE PyRepr(items[i]))
    \o (IF i = Len(items) THEN ""
        ELSE ", " \o PyReprItems(items, isDict, i + 1))

PyRepr(x) ==
    CASE x.t = "str" -> "'" \o x.v \o "'"
      [] x.t = "list" ->
            IF x.v = <<>> THEN "[]" ELSE "[" \o PyReprItems(x.v, FALSE, 1) \o "]"
      [] x.t = "dict" ->
            IF x.v = <<>> THEN "{}" ELSE "{" \o PyReprItems(x.v, TRUE, 1) \o "}"
      [] OTHER -> PyStr(x)

PyStr(x) ==
    CASE x.t = "str" -> x.v
      [] x.t = "int" -> ToString(x.v)
      [] x.t = "bool" -> IF x.v THEN "True" ELSE "False"
      [] x.t = "NoneType" -> "None"
      [] OTHER -> PyRepr(x)

(***************************************************************************)
(* The clock.  A datetime is the tick count read from the clock; the date  *)
(* and time fields are printed for a clock that starts at the epoch and    *)
(* stays within its first minute (the bounds are far below 60 seconds).    *)
(***************************************************************************)
JDatetime(ticks) == [t |-> "datetime", v |-> ticks]

RECURSIVE ZeroPad(_, _)
ZeroPad(s, width) == IF Len(s) >= width THEN s ELSE ZeroPad("0" \o s, width)

SecondOf(ticks) == ticks \div TicksPerSecond
MicrosecondOf(ticks) == (ticks % TicksPerSecond) * (1000000 \div TicksPerSecond)

\* datetime.isoformat(): the microseconds are printed only when non-zero
IsoFormat(ticks) ==
    "1970-01-01T00:00:" \o ZeroPad(ToString(SecondOf(ticks)), 2)
    \o (IF MicrosecondOf(ticks) = 0 THEN ""
        ELSE "." \o ZeroPad(ToString(MicrosecondOf(ticks)), 6))

\* datetime.strftime('%Y%m%d_%H%M%S')
StrfSessionId(ticks) == "19700101_0000" \o ZeroPad(ToString(SecondOf(ticks)), 2)

\* datetime.strftime('%Y-%m-%d %H:%M:%S')
StrfStatus(ticks) == "1970-01-01 00:00:" \o ZeroPad(ToString(SecondOf(ticks)), 2)

(***************************************************************************)
(* PersonalityType and PersonalityState.                                   *)
(***************************************************************************)
\* the enum's values in declaration order
PersonalityType == <<"manager", "analyst", "creative", "critic", "implementer">>

PersonalityValues == {PersonalityType[i] : i \in 1..Len(PersonalityType)}

\* PersonalityType(value): the member, or ValueError
IsPersonalityType(value) == IsStr(value) /\ value.v \in PersonalityValues

PersonalityState(ptype, name, role, description) ==
    [personality_type |-> ptype,
     name |-> name,
     role |-> role,
     description |-> description,
     active |-> TRUE,
     conversation_history |-> <<>>,
     feedback_given |-> <<>>,
     tasks_assigned |-> <<>>,
     last_activity |-> JNone]

initialize_personalities ==
    [p \in PersonalityValues |->
        CASE p = "manager" -> PersonalityState("manager", "Director",
                "Project Manager & Coordinator",
                "Oversees all operations, coordinates between personalities, makes final decisions, and ensures quality standards. Responsible for task delegation and overall project success.")
          [] p = "analyst" -> PersonalityState("analyst", "Logic",
                "Data Analyst & Strategic Thinker",
                "Focuses on logical analysis, data interpretation, risk assessment, and strategic planning. Provides fact-based insights and identifies potential issues.")
          [] p = "creative" -> PersonalityState("creative", "Spark",
                "Creative Innovator & Solution Designer",
                "Generates innovative ideas, creative solutions, and out-of-the-box thinking. Focuses on user experience and aesthetic aspects.")
          [] p = "critic" -> PersonalityState("critic", "Guardian",
                "Quality Assurance & Process Optimizer",
                "Identifies flaws, suggests improvements, ensures quality standards, and challenges assumptions. Provides constructive criticism and quality control.")
          [] p = "implementer" -> PersonalityState("implementer", "Builder",
                "Implementation Specialist & Problem Solver",
                "Focuses on practical implementation, technical execution, and hands-on problem solving. Ensures ideas become actionable reality.")]

\* PersonalityManager.__init__: the manager's three fields.  The state M
\* the handlers work on carries a fourth member, `context`: the local
\* variable of get_personality_response that holds the context it built
\* last, None before the first call.
PersonalityManager ==
    [personalities |-> initialize_personalities,
     collaborative_session |-> JDict(<<>>),
     session_history |-> <<>>,
     context |-> JNone]

(***************************************************************************)
(* PersonalityManager operations.  Each takes the manager state M and the  *)
(* clock reading and returns the new manager state.                        *)
(***************************************************************************)
\* AppendInteraction that keeps session_start records out of the shared history
AppendInteraction_SkipsSessionStart(M, ptype, interaction, clock) ==
    [M EXCEPT
       !.personalities[ptype].conversation_history =
             Append(M.personalities[ptype].conversation_history, interaction),
       !.personalities[ptype].last_activity = JDatetime(clock),
       !.session_history = IF interaction.type = "session_start" THEN @
                           ELSE Append(M.session_history, interaction)]

\* the appends and the last_activity update of log_interaction
AppendInteraction(M, ptype, interaction, clock) ==
    [M EXCEPT
       !.personalities[ptype].conversation_history =
             Append(M.personalities[ptype].conversation_history, interaction),
       !.personalities[ptype].last_activity = JDatetime(clock),
       !.session_history = Append(M.session_history, interaction)]

\* log_interaction that begins the shared history anew with a new session
log_interaction_NewSessionNewHistory(M, ptype, interaction_type, content, clock) ==
    AppendInteraction(
        IF interaction_type = "session_start" /\ ptype = "manager"
        THEN [M EXCEPT !.session_history = <<>>]
        ELSE M,
        ptype,
        [timestamp |-> IsoFormat(clock),
         type |-> interaction_type,
         content |-> content,
         personality |-> M.personalities[ptype].name],
        clock)

log_interaction(M, ptype, interaction_type, content, clock) ==
    AppendInteraction(M, ptype,
        [timestamp |-> IsoFormat(clock),
         type |-> interaction_type,
         content |-> content,
         personality |-> M.personalities[ptype].name],
        clock)

\* an interaction record as the dict json.dumps prints
InteractionJson(r) ==
    JDict(<< <<"timestamp", JStr(r.timestamp)>>,
             <<"type", JStr(r.type)>>,
             <<"content", r.content>>,
             <<"personality", JStr(r.personality)>> >>)

\* a list of interaction records, and a list of str, as json.dumps sees them
RECURSIVE InteractionsJson(_)
InteractionsJson(records) ==
    IF records = <<>> THEN <<>>
    ELSE <<InteractionJson(Head(records))>> \o InteractionsJson(Tail(records))

RECURSIVE JStrs(_)
JStrs(strings) ==
    IF strings = <<>> THEN <<>> ELSE <<JStr(Head(strings))>> \o JStrs(Tail(strings))

\* RecentInteractions that does not leave the asked personality out
RecentInteractions_OwnToo(M, ptype, i) ==
    LastN(M.personalities["manager"].conversation_history, RECENT_INTERACTIONS)
    \o LastN(M.personalities["analyst"].conversation_history, RECENT_INTERACTIONS)
    \o LastN(M.personalities["creative"].conversation_history, RECENT_INTERACTIONS)
    \o LastN(M.personalities["critic"].conversation_history, RECENT_INTERACTIONS)
    \o LastN(M.personalities["implementer"].conversation_history, RECENT_INTERACTIONS)

\* recent_interactions of get_personality_context: for every other
\* personality in registry order, its last three interactions
RECURSIVE RecentInteractions(_, _, _)
RecentInteractions(M, ptype, i) ==
    IF i > Len(PersonalityType) THEN <<>>
    ELSE LET other == PersonalityType[i]
             own == IF other = ptype THEN <<>>
                    ELSE LastN(M.personalities[other].conversation_history,
                               RECENT_INTERACTIONS)
         IN own \o RecentInteractions(M, ptype, i + 1)

get_personality_context(M, ptype) ==
    LET personality == M.personalities[ptype]
    IN JDict(<<
        <<"personality", JDict(<<
            <<"name", JStr(personality.name)>>,
            <<"role", JStr(personality.role)>>,
            <<"description", JStr(personality.description)>>,
            <<"active", JBool(personality.active)>>,
            <<"tasks_assigned", JList(JStrs(personality.tasks_assigned))>>,
            <<"last_activity",
              IF personality.last_activity.t = "NoneType" THEN JNone
              ELSE JStr(IsoFormat(personality.last_activity.v))>> >>)>>,
        <<"recent_team_interactions",
          JList(InteractionsJson(RecentInteractions(M, ptype, 1)))>>,
        <<"session_context", M.collaborative_session>> >>)

\* LogSessionStart that goes through the registry from its last member
RECURSIVE LogSessionStart_Reversed(_, _, _, _)
LogSessionStart_Reversed(M, topic, clock, i) ==
    IF i > Len(PersonalityType) THEN M
    ELSE log_interaction(LogSessionStart_Reversed(M, topic, clock, i + 1),
                         PersonalityType[i], "session_start",
                         JStr("New collaborative session started: " \o PyStr(topic)),
                         clock)

RECURSIVE LogSessionStart(_, _, _, _)
LogSessionStart(M, topic, clock, i) ==
    IF i > Len(PersonalityType) THEN M
    ELSE LogSessionStart(
            log_interaction(M, PersonalityType[i], "session_start",
                JStr("New collaborative session started: " \o PyStr(topic)), clock),
            topic, clock, i + 1)

\* SessionId made of the clock reading at its full resolution
SessionId_PerTick(clock) == "session_19700101_0000" \o ZeroPad(ToString(clock), 2)

SessionId(clock) == "session_" \o StrfSessionId(clock)

\* Participants taken in alphabetical order instead of registry order
Participants_Sorted ==
    JList(<<JStr("analyst"), JStr("creative"), JStr("critic"),
            JStr("implementer"), JStr("manager")>>)

\* [p.value for p in self.personalities.keys()]
Participants == JList(JStrs(PersonalityType))

\* start_collaborative_session that updates a session that exists instead
\* of replacing it: the topic of the first start is kept
start_collaborative_session_KeepsTopic(M, topic, initial_request, clock) ==
    LogSessionStart(
        [M EXCEPT !.collaborative_session = JDict(<<
            <<"session_id", JStr(SessionId(clock))>>,
            <<"topic", DictGet(M.collaborative_session, "topic", topic)>>,
            <<"initial_request", initial_request>>,
            <<"started_at", JStr(IsoFormat(clock))>>,
            <<"status", JStr("active")>>,
            <<"participants", Participants>> >>)],
        topic, clock, 1)

\* returns the manager state; the session id returned to the caller is
\* SessionId(clock)
start_collaborative_session(M, topic, initial_request, clock) ==
    LogSessionStart(
        [M EXCEPT !.collaborative_session = JDict(<<
            <<"session_id", JStr(SessionId(clock))>>,
            <<"topic", topic>>,
            <<"initial_request", initial_request>>,
            <<"started_at", JStr(IsoFormat(clock))>>,
            <<"status", JStr("active")>>,
            <<"participants", Participants>> >>)],
        topic, clock, 1)

(***************************************************************************)
(* Outcome of a handler: it returns a value or raises, and either way      *)
(* leaves the manager state M it has reached.                              *)
(***************************************************************************)
Return(M, value) == [ok |-> TRUE, M |-> M, value |-> value, error |-> ""]
Raise(M, message) == [ok |-> FALSE, M |-> M, value |-> "", error |-> message]

(***************************************************************************)
(* generate_demo_response.  Each template is the source's f-string with    *)
(* its opening (which embeds query[:100]) and its closing sentence; the    *)
(* fixed bullet lists between the two are constant text and are left out.  *)
(***************************************************************************)
\* query[:100] can be taken of a str or a list
Sliceable(query) == query.t \in {"str", "list"}

\* the TypeError of query[:100]
SliceErrorText(query) ==
    IF query.t = "dict" THEN "unhashable type: 'slice'"
    ELSE "'" \o query.t \o "' object is not subscriptable"

\* QueryPreview that takes the whole query
QueryPreview_WholeQuery(query) ==
    IF query.t = "str" THEN query.v ELSE PyStr(query)

\* f"{query[:100]}"
QueryPreview(query) ==
    IF query.t = "str" THEN Prefix(query.v, QUERY_PREVIEW)
    ELSE PyStr(JList(Prefix(query.v, QUERY_PREVIEW)))

\* the template of one personality around q, the text of query[:100]
DemoTemplate(M, ptype, query, q) ==
    LET personality == M.personalities[ptype]
    IN CASE ptype = "manager" ->
              "As the " \o personality.role \o ", I understand the request: \""
              \o q \o "...\"\n\nLet me coordinate our team approach:\n\n"
              \o "Next steps: Assigning specific tasks to each personality based on their strengths."
         [] ptype = "analyst" ->
              "Looking at this request analytically: \"" \o q
              \o "...\"\n\n**Key Analysis Points:**\n\n"
              \o "I recommend we proceed with structured information gathering before moving to solution design."
         [] ptype = "creative" ->
              "This is exciting! For \"" \o q
              \o "...\", I see amazing possibilities!\n\n**Creative Opportunities:**\n\n"
              \o "Let's push boundaries and create something truly remarkable that users will love!"
         [] ptype = "critic" ->
              "Reviewing the request \"" \o q
              \o "...\", I have several quality concerns to address:\n\n**Critical Review Points:**\n\n"
              \o "I'll monitor the project closely to ensure we maintain high standards throughout."
         [] ptype = "implementer" ->
              "Ready to tackle \"" \o q
              \o "...\"! Let's make this happen.\n\n**Implementation Strategy:**\n\n"
              \o "Ready to start coding and building the solution immediately!"
         [] OTHER -> "Response from " \o personality.name \o ": " \o PyStr(query)

\* generate_demo_response that tells how many tasks the context lists
generate_demo_response_CountsTasks(M, ptype, query, context) ==
    DemoTemplate(M, ptype, query, QueryPreview(query))
    \o "\n\nOpen tasks: "
    \o (IF IsDict(context)
        THEN ToString(Len(DictGet(DictGet(context, "personality", JDict(<<>>)),
                                  "tasks_assigned", JList(<<>>)).v))
        ELSE "none")

\* the context parameter is not read by any template
generate_demo_response(M, ptype, query, context) ==
    DemoTemplate(M, ptype, query, QueryPreview(query))

\* get_personality_response: the context is built, the query is logged, the
\* response is rendered (which may raise) and then logged
LogResponse(logged, ptype, demo_response, clock) ==
    Return(log_interaction(logged, ptype, "response", JStr(demo_response), clock),
           demo_response)

\* `logged` is the manager state after the query was logged
RenderResponse(logged, ptype, query, clock) ==
    IF ~Sliceable(query) THEN Raise(logged, SliceErrorText(query))
    ELSE LogResponse(logged, ptype,
                     generate_demo_response(logged, ptype, query, logged.context),
                     clock)

\* context = self.personality_manager.get_personality_context(...)
BuildContext(M, ptype) ==
    [M EXCEPT !.context = get_personality_context(M, ptype)]

get_personality_response(M, ptype, query, clock) ==
    RenderResponse(log_interaction(BuildContext(M, ptype), ptype, "query",
                                   query, clock),
                   ptype, query, clock)

(***************************************************************************)
(* handle_tools_call, one operator per tool.                               *)
(***************************************************************************)
ToolText(text) == [content |-> <<[type |-> "text", text |-> text]>>]

StrEq(x, s) == IsStr(x) /\ x.v = s

\* the tool result built around a personality response: the text `before`,
\* the response, or the exception the response raised
ResponseText(response, before) ==
    IF ~response.ok THEN Raise(response.M, response.error)
    ELSE Return(response.M, ToolText(before \o response.value))

SectionHeader(M, ptype) ==
    "**" \o M.personalities[ptype].name \o " ("
    \o M.personalities[ptype].role \o "):**\n"

StartSessionQuery(topic, initial_request) ==
    "A new collaborative session has started. Topic: " \o PyStr(topic)
    \o ". Initial request: " \o PyStr(initial_request)
    \o ". Please coordinate the team response."

StartSession(M, topic, initial_request, clock) ==
    ResponseText(
        get_personality_response(
            start_collaborative_session(M, topic, initial_request, clock),
            "manager", JStr(StartSessionQuery(topic, initial_request)), clock),
        "Collaborative session started (ID: " \o SessionId(clock)
        \o ")\n\n**Manager Response:**\n")

ToolStartCollaborativeSession(M, arguments, clock) ==
    IF ~IsDict(arguments) THEN Raise(M, AttributeErrorText(arguments, "get"))
    ELSE StartSession(M, DictGet(arguments, "topic", JStr("")),
                      DictGet(arguments, "initial_request", JStr("")), clock)

ConsultFullQuery(question, context) ==
    IF Truthy(context)
    THEN JStr(PyStr(question) \o "\n\nContext: " \o PyStr(context))
    ELSE question

Consult(M, personality_str, question, context, clock) ==
    IF ~IsPersonalityType(personality_str)
    THEN Return(M, ToolText("Unknown personality: " \o PyStr(personality_str)))
    ELSE ResponseText(
            get_personality_response(M, personality_str.v,
                                     ConsultFullQuery(question, context), clock),
            SectionHeader(M, personality_str.v) \o "\n")

ToolConsultPersonality(M, arguments, clock) ==
    IF ~IsDict(arguments) THEN Raise(M, AttributeErrorText(arguments, "get"))
    ELSE Consult(M, DictGet(arguments, "personality", JStr("")),
                 DictGet(arguments, "question", JStr("")),
                 DictGet(arguments, "context", JStr("")), clock)

\* one turn of the fan-out loop: responses[personality_type.value] = response
Collect(asked, ptype, response) ==
    [M |-> response.M,
     responses |-> Append(asked.responses, <<ptype, JStr(response.value)>>)]

\* the fan-out loop of get_team_consensus and personality_feedback: asks
\* PersonalityType[i..] (without the members of `skip`) in enum order;
\* asked.M is the manager state so far and asked.responses the dict of the
\* responses so far, keyed by the enum value
RECURSIVE FanOut(_, _, _, _, _)
FanOut(asked, query, skip, clock, i) ==
    IF i > Len(PersonalityType) THEN asked
    ELSE IF PersonalityType[i] \in skip THEN FanOut(asked, query, skip, clock, i + 1)
    ELSE FanOut(Collect(asked, PersonalityType[i],
                        get_personality_response(asked.M, PersonalityType[i],
                                                 JStr(query), clock)),
                query, skip, clock, i + 1)

\* the per-personality sections of the result text, in the order of the
\* collected responses
RECURSIVE Sections(_, _, _)
Sections(M, responses, i) ==
    IF i > Len(responses) THEN ""
    ELSE SectionHeader(M, responses[i][1]) \o responses[i][2].v \o "\n\n"
         \o Sections(M, responses, i + 1)

ConsensusFullQuery(topic, details) ==
    IF Truthy(details)
    THEN "Topic: " \o PyStr(topic) \o "\n\nDetails: " \o PyStr(details)
    ELSE "Topic: " \o PyStr(topic)

ConsensusQuery(full_query) ==
    "Please provide your perspective on this topic for team consensus: "
    \o full_query

FinalConsensusQuery(full_query, responses) ==
    "Based on all team input, please provide a final consensus on: "
    \o full_query \o "\n\nTeam responses: " \o JsonDumps(JDict(responses), 0)

\* FinalConsensus whose result text starts at the second collected response
FinalConsensus_SkipsFirstSection(M, topic, full_query, asked, clock) ==
    ResponseText(
        get_personality_response(asked.M, "manager",
            JStr(FinalConsensusQuery(full_query, asked.responses)), clock),
        "**Team Consensus on: " \o PyStr(topic) \o "**\n\n"
        \o Sections(M, asked.responses, 2)
        \o "**Final Consensus (Manager):**\n")

\* after the loop: the manager's final consensus and the result text
FinalConsensus(M, topic, full_query, asked, clock) ==
    ResponseText(
        get_personality_response(asked.M, "manager",
            JStr(FinalConsensusQuery(full_query, asked.responses)), clock),
        "**Team Consensus on: " \o PyStr(topic) \o "**\n\n"
        \o Sections(M, asked.responses, 1)
        \o "**Final Consensus (Manager):**\n")

\* TeamConsensus that leaves the manager out of the loop, as
\* personality_feedback does
TeamConsensus_SkipsManager(M, topic, full_query, clock) ==
    FinalConsensus(M, topic, full_query,
        FanOut([M |-> M, responses |-> <<>>], ConsensusQuery(full_query),
               {"manager"}, clock, 1),
        clock)

\* the loop over PersonalityType, then the final consensus
TeamConsensus(M, topic, full_query, clock) ==
    FinalConsensus(M, topic, full_query,
        FanOut([M |-> M, responses |-> <<>>], ConsensusQuery(full_query),
               {}, clock, 1),
        clock)

\* ToolGetTeamConsensus that ends the session once the team has agreed
ToolGetTeamConsensus_ClosesSession(M, arguments, clock) ==
    IF ~IsDict(arguments) THEN Raise(M, AttributeErrorText(arguments, "get"))
    ELSE TeamConsensus([M EXCEPT !.collaborative_session = JDict(<<>>)],
            DictGet(arguments, "topic", JStr("")),
            ConsensusFullQuery(DictGet(arguments, "topic", JStr("")),
                               DictGet(arguments, "details", JStr(""))),
            clock)

ToolGetTeamConsensus(M, arguments, clock) ==
    IF ~IsDict(arguments) THEN Raise(M, AttributeErrorText(arguments, "get"))
    ELSE TeamConsensus(M, DictGet(arguments, "topic", JStr("")),
            ConsensusFullQuery(DictGet(arguments, "topic", JStr("")),
                               DictGet(arguments, "details", JStr(""))),
            clock)

\* the characters of a str, which is what iterating over it yields
RECURSIVE Chars(_)
Chars(s) == IF Len(s) = 0 THEN <<>> ELSE <<SubSeq(s, 1, 1)>> \o Chars(SubSeq(s, 2, Len(s)))

RECURSIVE Keys(_)
Keys(members) == IF members = <<>> THEN <<>> ELSE <<Head(members)[1]>> \o Keys(Tail(members))

\* the index of the first item of a list that is not a str, 0 when all are
FirstNonStr(items) ==
    LET bad == {i \in 1..Len(items) : ~IsStr(items[i])}
    IN IF bad = {} THEN 0 ELSE CHOOSE i \in bad : \A j \in bad : i <= j

\* ', '.join(focus_areas) raises TypeError on these
JoinFails(focus_areas) ==
    \/ focus_areas.t \in {"int", "bool", "NoneType"}
    \/ focus_areas.t = "list" /\ FirstNonStr(focus_areas.v) /= 0

JoinErrorText(focus_areas) ==
    IF focus_areas.t = "list"
    THEN LET i == FirstNonStr(focus_areas.v)
         IN "sequence item " \o ToString(i - 1) \o ": expected str instance, "
            \o focus_areas.v[i].t \o " found"
    ELSE "can only join an iterable"

RECURSIVE StrValues(_)
StrValues(items) == IF items = <<>> THEN <<>> ELSE <<Head(items).v>> \o StrValues(Tail(items))

\* ', '.join(focus_areas) where it does not raise
JoinFocusAreas(focus_areas) ==
    CASE focus_areas.t = "list" -> Join(StrValues(focus_areas.v), ", ")
      [] focus_areas.t = "str" -> Join(Chars(focus_areas.v), ", ")
      [] focus_areas.t = "dict" -> Join(Keys(focus_areas.v), ", ")

FeedbackQuery(proposal, focus_text) ==
    "Please provide feedback on this proposal: " \o PyStr(proposal) \o focus_text

AssessmentQuery(proposal, feedback_responses) ==
    "Review all team feedback and provide final assessment on: " \o PyStr(proposal)
    \o "\n\nTeam feedback: " \o JsonDumps(JDict(feedback_responses), 0)

FocusText(focus_areas) ==
    IF Truthy(focus_areas)
    THEN "\n\nPlease focus on: " \o JoinFocusAreas(focus_areas)
    ELSE ""

\* after the loop: the manager's assessment and the result text
ManagerAssessment(M, proposal, asked, clock) ==
    ResponseText(
        get_personality_response(asked.M, "manager",
            JStr(AssessmentQuery(proposal, asked.responses)), clock),
        "**Feedback on Proposal:**\n" \o PyStr(proposal) \o "\n\n"
        \o Sections(M, asked.responses, 1)
        \o "**Manager Assessment:**\n")

\* Feedback whose loop does not leave the manager out
Feedback_AsksManagerToo(M, proposal, focus_areas, clock) ==
    IF Truthy(focus_areas) /\ JoinFails(focus_areas)
    THEN Raise(M, JoinErrorText(focus_areas))
    ELSE ManagerAssessment(M, proposal,
            FanOut([M |-> M, responses |-> <<>>],
                   FeedbackQuery(proposal, FocusText(focus_areas)),
                   {}, clock, 1),
            clock)

Feedback(M, proposal, focus_areas, clock) ==
    IF Truthy(focus_areas) /\ JoinFails(focus_areas)
    THEN Raise(M, JoinErrorText(focus_areas))
    ELSE ManagerAssessment(M, proposal,
            FanOut([M |-> M, responses |-> <<>>],
                   FeedbackQuery(proposal, FocusText(focus_areas)),
                   {"manager"}, clock, 1),
            clock)

ToolPersonalityFeedback(M, arguments, clock) ==
    IF ~IsDict(arguments) THEN Raise(M, AttributeErrorText(arguments, "get"))
    ELSE Feedback(M, DictGet(arguments, "proposal", JStr("")),
                  DictGet(arguments, "focus_areas", JList(<<>>)), clock)

\* TaskEntry that keeps the priority as it was given
TaskEntry_KeepsCase(priority, task) == "[" \o priority.v \o "] " \o PyStr(task)

TaskEntry(priority, task) == "[" \o Upper(priority.v) \o "] " \o PyStr(task)

AcknowledgeQuery(task, priority) ==
    "You have been assigned a new task: " \o PyStr(task) \o ". Priority: "
    \o PyStr(priority) \o ". Please acknowledge and provide your initial approach."

\* AppendTask that also marks the personality as busy, not active
AppendTask_Deactivates(M, ptype, task_entry) ==
    [M EXCEPT !.personalities[ptype].tasks_assigned =
                 Append(M.personalities[ptype].tasks_assigned, task_entry),
              !.personalities[ptype].active = FALSE]

\* personality.tasks_assigned.append(task_entry)
AppendTask(M, ptype, task_entry) ==
    [M EXCEPT !.personalities[ptype].tasks_assigned =
                 Append(M.personalities[ptype].tasks_assigned, task_entry)]

\* AssignEntry that asks for the acknowledgment first and records the task
\* when the response has come
AssignEntry_AcknowledgesFirst(M, ptype, task_entry, task, priority, clock) ==
    ResponseText(
        [get_personality_response(M, ptype,
                                  JStr(AcknowledgeQuery(task, priority)), clock)
            EXCEPT !.M = log_interaction(AppendTask(@, ptype, task_entry), ptype,
                                         "task_assigned",
                                         JStr("Task assigned: " \o task_entry),
                                         clock)],
        "Task assigned to " \o M.personalities[ptype].name \o ".\n\n**"
        \o M.personalities[ptype].name \o "'s Response:**\n")

\* the body of the try block once task_entry is formatted
AssignEntry(M, ptype, task_entry, task, priority, clock) ==
    ResponseText(
        get_personality_response(
            log_interaction(AppendTask(M, ptype, task_entry), ptype,
                            "task_assigned",
                            JStr("Task assigned: " \o task_entry), clock),
            ptype, JStr(AcknowledgeQuery(task, priority)), clock),
        "Task assigned to " \o M.personalities[ptype].name \o ".\n\n**"
        \o M.personalities[ptype].name \o "'s Response:**\n")

\* Assign that gives the task of an unknown personality to the manager
Assign_FallsBackToManager(M, personality_str, task, priority, clock) ==
    IF ~IsPersonalityType(personality_str)
    THEN Return(AppendTask(M, "manager", "[MEDIUM] " \o PyStr(task)),
                ToolText("Unknown personality: " \o PyStr(personality_str)))
    ELSE IF ~IsStr(priority) THEN Raise(M, AttributeErrorText(priority, "upper"))
    ELSE AssignEntry(M, personality_str.v, TaskEntry(priority, task),
                     task, priority, clock)

Assign(M, personality_str, task, priority, clock) ==
    IF ~IsPersonalityType(personality_str)
    THEN Return(M, ToolText("Unknown personality: " \o PyStr(personality_str)))
    ELSE IF ~IsStr(priority) THEN Raise(M, AttributeErrorText(priority, "upper"))
    ELSE AssignEntry(M, personality_str.v, TaskEntry(priority, task),
                     task, priority, clock)

ToolAssignTask(M, arguments, clock) ==
    IF ~IsDict(arguments) THEN Raise(M, AttributeErrorText(arguments, "get"))
    ELSE Assign(M, DictGet(arguments, "personality", JStr("")),
                DictGet(arguments, "task", JStr("")),
                DictGet(arguments, "priority", JStr("medium")), clock)

RECURSIVE TaskLines(_)
\* the source prints a bullet character before each task; it is written
\* here as an asterisk
TaskLines(tasks) ==
    IF tasks = <<>> THEN ""
    ELSE "  * " \o Head(tasks) \o "\n" \o TaskLines(Tail(tasks))

PersonalityStatus(personality) ==
    "**" \o personality.name \o " (" \o personality.role \o "):**\n"
    \o "- Status: " \o (IF personality.active THEN "Active" ELSE "Inactive") \o "\n"
    \o "- Assigned Tasks: " \o ToString(Len(personality.tasks_assigned)) \o "\n"
    \o "- Conversation History: "
    \o ToString(Len(personality.conversation_history)) \o " interactions\n"
    \o "- Last Activity: "
    \o (IF personality.last_activity.t = "NoneType" THEN "Never"
        ELSE StrfStatus(personality.last_activity.v)) \o "\n"
    \o (IF personality.tasks_assigned /= <<>>
        THEN "- Current Tasks:\n"
             \o TaskLines(LastN(personality.tasks_assigned, STATUS_TASKS))
        ELSE "")
    \o "\n"

RECURSIVE StatusReport(_, _)
StatusReport(M, i) ==
    IF i > Len(PersonalityType) THEN ""
    ELSE PersonalityStatus(M.personalities[PersonalityType[i]]) \o StatusReport(M, i + 1)

SessionStatus(session) ==
    IF Truthy(session)
    THEN "**Current Session:**\n"
         \o "- Topic: " \o PyStr(DictGet(session, "topic", JStr("N/A"))) \o "\n"
         \o "- Status: " \o PyStr(DictGet(session, "status", JStr("N/A"))) \o "\n"
         \o "- Started: " \o PyStr(DictGet(session, "started_at", JStr("N/A"))) \o "\n"
    ELSE ""

\* ToolGetPersonalityStatus that takes the reported tasks off the lists
ToolGetPersonalityStatus_DrainsTasks(M) ==
    Return([M EXCEPT !.personalities =
                [p \in DOMAIN M.personalities |->
                    [M.personalities[p] EXCEPT !.tasks_assigned = <<>>]]],
           ToolText("**Personality Status Report**\n\n" \o StatusReport(M, 1)
                    \o SessionStatus(M.collaborative_session)))

ToolGetPersonalityStatus(M) ==
    Return(M, ToolText("**Personality Status Report**\n\n" \o StatusReport(M, 1)
                       \o SessionStatus(M.collaborative_session)))

\* CallTool whose else branch raises instead of returning a text
CallTool_RaisesOnUnknown(M, name, arguments, clock) ==
    CASE StrEq(name, "start_collaborative_session") ->
           ToolStartCollaborativeSession(M, arguments, clock)
      [] StrEq(name, "consult_personality") ->
           ToolConsultPersonality(M, arguments, clock)
      [] StrEq(name, "get_team_consensus") ->
           ToolGetTeamConsensus(M, arguments, clock)
      [] StrEq(name, "personality_feedback") ->
           ToolPersonalityFeedback(M, arguments, clock)
      [] StrEq(name, "assign_task") ->
           ToolAssignTask(M, arguments, clock)
      [] StrEq(name, "get_personality_status") ->
           ToolGetPersonalityStatus(M)
      [] OTHER -> Raise(M, "Unknown tool: " \o PyStr(name))

\* the if/elif chain of handle_tools_call over the tool name
CallTool(M, name, arguments, clock) ==
    CASE StrEq(name, "start_collaborative_session") ->
           ToolStartCollaborativeSession(M, arguments, clock)
      [] StrEq(name, "consult_personality") ->
           ToolConsultPersonality(M, arguments, clock)
      [] StrEq(name, "get_team_consensus") ->
           ToolGetTeamConsensus(M, arguments, clock)
      [] StrEq(name, "personality_feedback") ->
           ToolPersonalityFeedback(M, arguments, clock)
      [] StrEq(name, "assign_task") ->
           ToolAssignTask(M, arguments, clock)
      [] StrEq(name, "get_personality_status") ->
           ToolGetPersonalityStatus(M)
      [] OTHER -> Return(M, ToolText("Unknown tool: " \o PyStr(name)))

handle_tools_call(M, params, clock) ==
    IF ~IsDict(params) THEN Raise(M, AttributeErrorText(params, "get"))
    ELSE CallTool(M, DictGet(params, "name", JStr("")),
                  DictGet(params, "arguments", JDict(<<>>)), clock)

(***************************************************************************)
(* The other request handlers.                                             *)
(***************************************************************************)
handle_initialize ==
    [protocolVersion |-> "2024-11-05",
     capabilities |-> [logging |-> <<>>,
                       tools |-> [listChanged |-> TRUE],
                       resources |-> [subscribe |-> TRUE, listChanged |-> TRUE]],
     serverInfo |-> [name |-> "multi-personality-ai", version |-> "1.0.0"]]

\* a tool descriptor: its name and the required members of its inputSchema
Tool(name, required) ==
    [name |-> name, inputSchema |-> [type |-> "object", required |-> required]]

handle_tools_list ==
    [tools |-> <<Tool("start_collaborative_session", <<"topic", "initial_request">>),
                 Tool("consult_personality", <<"personality", "question">>),
                 Tool("get_team_consensus", <<"topic">>),
                 Tool("personality_feedback", <<"proposal">>),
                 Tool("assign_task", <<"personality", "task">>),
                 Tool("get_personality_status", <<>>)>>]

RECURSIVE PersonalityResources(_, _)
PersonalityResources(M, i) ==
    IF i > Len(PersonalityType) THEN <<>>
    ELSE LET personality == M.personalities[PersonalityType[i]]
         IN <<[uri |-> "personality://" \o PersonalityType[i],
               name |-> personality.name \o " - " \o personality.role,
               description |-> "Access " \o personality.name
                               \o "'s state, history, and capabilities",
               mimeType |-> "application/json"]>>
            \o PersonalityResources(M, i + 1)

handle_resources_list(M) ==
    [resources |-> PersonalityResources(M, 1) \o
        <<[uri |-> "session://current",
           name |-> "Current Collaborative Session",
           description |-> "Information about the current collaborative session",
           mimeType |-> "application/json"],
          [uri |-> "session://history",
           name |-> "Session History",
           description |-> "Complete history of all interactions",
           mimeType |-> "application/json"]>>]

\* str.startswith
StartsWith(s, prefix) ==
    Len(s) >= Len(prefix) /\ SubSeq(s, 1, Len(prefix)) = prefix

\* the first index at or after i where sep occurs in s, 0 when it does not
RECURSIVE Find(_, _, _)
Find(s, sep, i) ==
    IF i + Len(sep) - 1 > Len(s) THEN 0
    ELSE IF SubSeq(s, i, i + Len(sep) - 1) = sep THEN i
    ELSE Find(s, sep, i + 1)

\* uri.split("://")[1] of a uri that starts with "personality://"
SplitScheme(uri) ==
    LET rest == SubSeq(uri, Len("personality://") + 1, Len(uri))
        next == Find(rest, "://", 1)
    IN IF next = 0 THEN rest ELSE SubSeq(rest, 1, next - 1)

ResourceText(text) == [contents |-> <<[type |-> "text", text |-> text]>>]

\* the if/elif chain of handle_resources_read over the uri
\* ReadResource that knows the session resources only
ReadResource_SessionOnly(M, uri) ==
    IF ~IsStr(uri) THEN Raise(M, AttributeErrorText(uri, "startswith"))
    ELSE IF uri.v = "session://current"
    THEN Return(M, ResourceText(JsonDumps(M.collaborative_session, 0)))
    ELSE IF uri.v = "session://history"
    THEN Return(M, ResourceText(
             JsonDumps(JList(InteractionsJson(M.session_history)), 0)))
    ELSE Raise(M, "Unknown resource: " \o uri.v)

ReadResource(M, uri) ==
    IF ~IsStr(uri) THEN Raise(M, AttributeErrorText(uri, "startswith"))
    ELSE IF StartsWith(uri.v, "personality://")
    THEN IF SplitScheme(uri.v) \in PersonalityValues
         THEN Return(M, ResourceText(
                  JsonDumps(get_personality_context(M, SplitScheme(uri.v)), 0)))
         ELSE Return(M, ResourceText("Unknown personality type: "
                                     \o SplitScheme(uri.v)))
    ELSE IF uri.v = "session://current"
    THEN Return(M, ResourceText(JsonDumps(M.collaborative_session, 0)))
    ELSE IF uri.v = "session://history"
    THEN Return(M, ResourceText(
             JsonDumps(JList(InteractionsJson(M.session_history)), 0)))
    ELSE Return(M, ResourceText("Unknown resource: " \o uri.v))

handle_resources_read(M, params) ==
    IF ~IsDict(params) THEN Raise(M, AttributeErrorText(params, "get"))
    ELSE ReadResource(M, DictGet(params, "uri", JStr("")))

(***************************************************************************)
(* handle_request: routes a request dict and wraps the outcome.            *)
(***************************************************************************)
\* Route without its else branch: an unrouted method is answered like
\* initialize instead of raising
Route_NoElse(M, method, params, clock) ==
    CASE StrEq(method, "tools/list") -> Return(M, handle_tools_list)
      [] StrEq(method, "tools/call") -> handle_tools_call(M, params, clock)
      [] StrEq(method, "resources/list") -> Return(M, handle_resources_list(M))
      [] StrEq(method, "resources/read") -> handle_resources_read(M, params)
      [] OTHER -> Return(M, handle_initialize)

\* the if/elif chain of handle_request over the method
Route(M, method, params, clock) ==
    CASE StrEq(method, "initialize") -> Return(M, handle_initialize)
      [] StrEq(method, "tools/list") -> Return(M, handle_tools_list)
      [] StrEq(method, "tools/call") -> handle_tools_call(M, params, clock)
      [] StrEq(method, "resources/list") -> Return(M, handle_resources_list(M))
      [] StrEq(method, "resources/read") -> handle_resources_read(M, params)
      [] OTHER -> Raise(M, "Unknown method: " \o PyStr(method))

ResultEnvelope(id, result) == [jsonrpc |-> "2.0", id |-> id, result |-> result]

\* ErrorEnvelope that answers every error with a null id
ErrorEnvelope_NullId(id, code, message) ==
    [jsonrpc |-> "2.0", id |-> JNone, error |-> [code |-> code, message |-> message]]

ErrorEnvelope(id, code, message) ==
    [jsonrpc |-> "2.0", id |-> id, error |-> [code |-> code, message |-> message]]

\* Envelope that keeps a result member beside the error
Envelope_ResultBesideError(outcome, request_id) ==
    [M |-> outcome.M,
     response |-> IF outcome.ok
                  THEN ResultEnvelope(request_id, outcome.value)
                  ELSE [jsonrpc |-> "2.0", id |-> request_id, result |-> <<>>,
                        error |-> [code |-> INTERNAL_ERROR,
                                   message |-> outcome.error]]]

\* the return of the try block, or the return of `except Exception`
Envelope(outcome, request_id) ==
    [M |-> outcome.M,
     response |-> IF outcome.ok
                  THEN ResultEnvelope(request_id, outcome.value)
                  ELSE ErrorEnvelope(request_id, INTERNAL_ERROR, outcome.error)]

\* the manager state handle_request leaves and the envelope it returns
handle_request(M, request, clock) ==
    Envelope(Route(M, DictGet(request, "method", JStr("")),
                   DictGet(request, "params", JDict(<<>>)), clock),
             DictGet(request, "id", JNone))

(***************************************************************************)
(* MCPServer.run.                                                          *)
(*                                                                         *)
(* A line of stdin is modelled by what run() makes of it: readline()       *)
(* returning '' (end of input), a line that strip() leaves empty, a line   *)
(* json.loads rejects with JSONDecodeError, or the value json.loads        *)
(* returns.  stdout holds the envelopes in the order they were printed;    *)
(* json.dumps(envelope) prints every member of an envelope, so the         *)
(* printed line and the envelope determine each other.                     *)
(***************************************************************************)
VARIABLES
    personalities,          \* PersonalityManager.personalities
    collaborative_session,  \* PersonalityManager.collaborative_session
    session_history,        \* PersonalityManager.session_history
    context,                \* the context get_personality_response built last
    stdin,                  \* the lines readline() has returned so far
    stdout,                 \* the envelopes printed so far
    pc,                     \* where run() stands
    now                     \* the clock datetime.now() reads, in ticks

vars == <<personalities, collaborative_session, session_history, context,
          stdin, stdout, pc, now>>

Eof == [kind |-> "eof", json |-> JNone]
Blank == [kind |-> "blank", json |-> JNone]
Malformed == [kind |-> "malformed", json |-> JNone]
Json(value) == [kind |-> "json", json |-> value]

\* the line run() is working on
line == stdin[Len(stdin)]

\* the state the handlers work on, as one value
Manager ==
    [personalities |-> personalities,
     collaborative_session |-> collaborative_session,
     session_history |-> session_history,
     context |-> context]

\* the manager state and the printed envelope after handle_request
Respond(handled) ==
    /\ personalities' = handled.M.personalities
    /\ collaborative_session' = handled.M.collaborative_session
    /\ session_history' = handled.M.session_history
    /\ context' = handled.M.context
    /\ stdout' = Append(stdout, handled.response)

ServerInfo == [jsonrpc |-> "2.0", method |-> "notifications/initialized", params |-> <<>>]

ParseErrorEnvelope == ErrorEnvelope(JNone, PARSE_ERROR, "Parse error")

Init ==
    /\ personalities = PersonalityManager.personalities
    /\ collaborative_session = PersonalityManager.collaborative_session
    /\ session_history = PersonalityManager.session_history
    /\ context = PersonalityManager.context
    /\ stdin = <<>>
    /\ stdout = <<>>
    /\ pc = "start"
    /\ now = 0

\* SendServerInfo that prints the notification twice
SendServerInfo_Twice ==
    /\ pc = "start"
    /\ stdout' = <<ServerInfo, ServerInfo>>
    /\ pc' = "readline"
    /\ UNCHANGED <<personalities, collaborative_session, session_history, context, stdin, now>>

\* the notification printed before the loop
SendServerInfo ==
    /\ pc = "start"
    /\ stdout' = Append(stdout, ServerInfo)
    /\ pc' = "readline"
    /\ UNCHANGED <<personalities, collaborative_session, session_history, context, stdin, now>>

\* time passes while run() waits for a line
Tick ==
    /\ pc = "readline"
    /\ now < MaxClock
    /\ now' = now + 1
    /\ UNCHANGED <<personalities, collaborative_session, session_history, context,
                   stdin, stdout, pc>>

\* readline() returns '': `if not line: break`
ReadEof(limit) ==
    /\ pc = "readline"
    /\ Len(stdin) < limit
    /\ stdin' = Append(stdin, Eof)
    /\ pc' = "done"
    /\ UNCHANGED <<personalities, collaborative_session, session_history, context, stdout, now>>

\* ReadBlank without the `continue`: the empty line reaches json.loads,
\* which rejects it
ReadBlank_NoSkip(limit) ==
    /\ pc = "readline"
    /\ Len(stdin) < limit
    /\ stdin' = Append(stdin, Blank)
    /\ stdout' = Append(stdout, ParseErrorEnvelope)
    /\ pc' = "readline"
    /\ UNCHANGED <<personalities, collaborative_session, session_history, context, now>>

\* the stripped line is empty: `continue`
ReadBlank(limit) ==
    /\ pc = "readline"
    /\ Len(stdin) < limit
    /\ stdin' = Append(stdin, Blank)
    /\ pc' = "readline"
    /\ UNCHANGED <<personalities, collaborative_session, session_history, context, stdout, now>>

\* any other line goes on to json.loads
ReadLine(l, limit) ==
    /\ pc = "readline"
    /\ Len(stdin) < limit
    /\ stdin' = Append(stdin, l)
    /\ pc' = "loads"
    /\ UNCHANGED <<personalities, collaborative_session, session_history, context, stdout, now>>

\* ParseError that leaves the loop after printing, as the handler of any
\* other exception does
ParseError_Breaks ==
    /\ pc = "loads"
    /\ line.kind = "malformed"
    /\ stdout' = Append(stdout, ParseErrorEnvelope)
    /\ pc' = "done"
    /\ UNCHANGED <<personalities, collaborative_session, session_history, context, stdin, now>>

\* json.loads raises JSONDecodeError: the fixed error envelope is printed
ParseError ==
    /\ pc = "loads"
    /\ line.kind = "malformed"
    /\ stdout' = Append(stdout, ParseErrorEnvelope)
    /\ pc' = "readline"
    /\ UNCHANGED <<personalities, collaborative_session, session_history, context, stdin, now>>

\* handle_request on a dict: its envelope is printed
HandleRequest ==
    /\ pc = "loads"
    /\ line.kind = "json"
    /\ IsDict(line.json)
    /\ Respond(handle_request(Manager, line.json, now))
    /\ pc' = "readline"
    /\ UNCHANGED <<stdin, now>>

\* handle_request on a value that is not a dict: request.get raises
\* AttributeError in the try block and again in its except block
\* (request.get("id")), so the exception leaves handle_request and run()'s
\* `except Exception` breaks the loop
UnexpectedError ==
    /\ pc = "loads"
    /\ line.kind = "json"
    /\ ~IsDict(line.json)
    /\ pc' = "done"
    /\ UNCHANGED <<personalities, collaborative_session, session_history, context,
                   stdin, stdout, now>>


(***************************************************************************)
(* The lines the environment writes to stdin.                              *)
(***************************************************************************)
NoId == <<>>
Id(value) == << <<"id", value>> >>

\* a request object as the test client builds it, with or without an id
Request(id, method, params) ==
    Json(JDict(<< <<"jsonrpc", JStr("2.0")>> >> \o id
               \o << <<"method", JStr(method)>>, <<"params", params>> >>))

ToolCall(id, name, arguments) ==
    Request(id, "tools/call",
            JDict(<< <<"name", JStr(name)>>, <<"arguments", arguments>> >>))

ResourceRead(id, uri) ==
    Request(id, "resources/read", JDict(<< <<"uri", JStr(uri)>> >>))

\* values json.loads returns that are not a dict
NonDictLines == {Json(JInt(42)), Json(JStr("ping")), Json(JList(<<>>)), Json(JNone)}

ProtocolLines ==
    {Malformed} \cup NonDictLines \cup
    {Request(Id(JInt(1)), "initialize", JDict(<<>>)),
     Request(Id(JInt(2)), "tools/list", JDict(<<>>)),
     Request(NoId, "resources/list", JDict(<<>>)),
     ResourceRead(Id(JInt(1)), "session://current"),
     Request(Id(JInt(1)), "foo/bar", JDict(<<>>)),
     Request(NoId, "foo/bar", JInt(5)),
     Json(JDict(<< <<"id", JInt(2)>> >>)),
     Json(JDict(<< <<"id", JStr("a")>>, <<"method", JInt(7)>> >>)),
     Request(Id(JInt(2)), "tools/call", JInt(5)),
     ToolCall(Id(JInt(1)), "no_such_tool", JDict(<<>>)),
     ToolCall(Id(JInt(2)), "consult_personality",
              JDict(<< <<"personality", JStr("analyst")>>,
                       <<"question", JStr("Which database?")>> >>)),
     ToolCall(Id(JNone), "get_personality_status", JDict(<<>>))}

RunNext(Lines, limit) ==
    \/ SendServerInfo
    \/ Tick
    \/ ReadEof(limit)
    \/ ReadBlank(limit)
    \/ \E l \in Lines : ReadLine(l, limit)
    \/ ParseError
    \/ HandleRequest
    \/ UnexpectedError

Next == RunNext(ProtocolLines, MaxLines)

Spec == Init /\ [][Next]_vars

(***************************************************************************)
(* Reading a run: the lines that reached json.loads and their envelopes.   *)
(***************************************************************************)
ReachesLoads(l) == l.kind \in {"malformed", "json"}

\* the non-blank lines read so far, in order
NonBlank == SelectSeq(stdin, ReachesLoads)

\* the k-th non-blank line has been answered: stdout[1] is the startup
\* notification, stdout[k + 1] the k-th envelope after it
Answered(k) == Len(stdout) >= k + 1

IsRequest(l) == l.kind = "json" /\ IsDict(l.json)

RequestId(l) == DictGet(l.json, "id", JNone)

Fields(envelope) == DOMAIN envelope

IsResult(envelope) == Fields(envelope) = {"jsonrpc", "id", "result"}

IsError(envelope, code) ==
    /\ Fields(envelope) = {"jsonrpc", "id", "error"}
    /\ DOMAIN envelope.error = {"code", "message"}
    /\ envelope.error.code = code

\* run() is past the k-th non-blank line and did not stop on it: the line
\* is being parsed, or the loop went back to readline; once the loop has
\* ended, a line read after the k-th (the end of input included) shows that
\* the k-th did not end it
LoopWentOn(k) ==
    \/ pc = "loads" /\ k <= Len(NonBlank)
    \/ pc = "readline"
    \/ pc = "done" /\ (k < Len(NonBlank) \/ line = Eof)

C2_NonObjectLineAnswered ==
    \A k \in 1..Len(NonBlank) :
        ~IsRequest(NonBlank[k]) =>
            /\ LoopWentOn(k)
            /\ ~Answered(k) => (pc = "loads" /\ k = Len(NonBlank))
            /\ Answered(k) =>
                  /\ stdout[k + 1].id = JNone
                  /\ IsError(stdout[k + 1], PARSE_ERROR)

(***************************************************************************)
(* C3.  A request whose method is not one of the five routed methods is    *)
(* answered with an error envelope with code -32603 and the request's id,  *)
(* without a result field, and the loop goes on.                           *)
(***************************************************************************)
RoutedMethods ==
    {"initialize", "tools/list", "tools/call", "resources/list", "resources/read"}

MethodOf(l) == DictGet(l.json, "method", JStr(""))

HasUnknownMethod(l) ==
    IsRequest(l) /\ ~(IsStr(MethodOf(l)) /\ MethodOf(l).v \in RoutedMethods)

C3_UnknownMethodIsInternalError ==
    \A k \in 1..Len(NonBlank) :
        HasUnknownMethod(NonBlank[k]) =>
            /\ LoopWentOn(k)
            /\ ~Answered(k) => (pc = "loads" /\ k = Len(NonBlank))
            /\ Answered(k) =>
                  /\ IsError(stdout[k + 1], INTERNAL_ERROR)
                  /\ stdout[k + 1].id = RequestId(NonBlank[k])
                  /\ "result" \notin Fields(stdout[k + 1])

\* "foo/bar" with an id was answered, and so was the line after it
C3_Witness ==
    /\ Len(NonBlank) >= 2
    /\ HasUnknownMethod(NonBlank[1])
    /\ RequestId(NonBlank[1]) = JInt(1)
    /\ Answered(2)
    /\ stdout[2].id = JInt(1)
    /\ IsError(stdout[2], INTERNAL_ERROR)

(***************************************************************************)
(* C5.  Every envelope written for a request object carries "2.0", the     *)
(* request's id (null when it has none) and exactly one of result and      *)
(* error; the handlers that cannot raise give a result, a raised fault     *)
(* gives an error with a code and a message.                               *)
(***************************************************************************)
\* requests whose handler takes no parameter apart and so cannot raise
CannotRaise(l) ==
    /\ IsStr(MethodOf(l))
    /\ MethodOf(l).v \in {"initialize", "tools/list", "resources/list"}

\* requests whose handler raises on its first statement: params.get on a
\* value that is not a dict
ParamsNotDict(l) ==
    /\ IsStr(MethodOf(l))
    /\ MethodOf(l).v \in {"tools/call", "resources/read"}
    /\ ~IsDict(DictGet(l.json, "params", JDict(<<>>)))

C5_EnvelopeShape ==
    \A k \in 1..Len(NonBlank) :
        (IsRequest(NonBlank[k]) /\ Answered(k)) =>
            /\ stdout[k + 1].jsonrpc = "2.0"
            /\ stdout[k + 1].id = (IF HasKey(NonBlank[k].json, "id")
                                   THEN RequestId(NonBlank[k]) ELSE JNone)
            /\ \/ IsResult(stdout[k + 1])
               \/ IsError(stdout[k + 1], INTERNAL_ERROR)
            /\ CannotRaise(NonBlank[k]) => IsResult(stdout[k + 1])
            /\ (HasUnknownMethod(NonBlank[k]) \/ ParamsNotDict(NonBlank[k])) =>
                  /\ IsError(stdout[k + 1], INTERNAL_ERROR)
                  /\ stdout[k + 1].error.message /= ""

\* a request without an id got a null id, one with an id got a result, and
\* one got an error
C5_Witness ==
    \E i, j, k \in 1..Len(NonBlank) :
        /\ Answered(i) /\ Answered(j) /\ Answered(k)
        /\ IsRequest(NonBlank[i]) /\ ~HasKey(NonBlank[i].json, "id")
        /\ stdout[i + 1].id = JNone
        /\ IsRequest(NonBlank[j]) /\ IsResult(stdout[j + 1])
        /\ stdout[j + 1].id = JInt(2)
        /\ IsRequest(NonBlank[k]) /\ IsError(stdout[k + 1], INTERNAL_ERROR)

(***************************************************************************)
(* C6.  Lines are processed in arrival order: the k-th envelope after the  *)
(* startup notification answers the k-th non-blank line; a line is read    *)
(* only when every earlier line has been processed and answered; a blank   *)
(* line writes nothing and changes nothing.                                *)
(***************************************************************************)
Answers(envelope, l) ==
    IF IsRequest(l)
    THEN /\ envelope.id = RequestId(l)
         /\ IsResult(envelope) \/ IsError(envelope, INTERNAL_ERROR)
    ELSE l.kind = "malformed" /\ envelope = ParseErrorEnvelope

\* how many non-blank lines run() has finished with an envelope
Processed ==
    IF pc = "readline" \/ (pc = "done" /\ line = Eof)
    THEN Len(NonBlank) ELSE Len(NonBlank) - 1

InOrder ==
    pc /= "start" =>
        /\ stdout[1] = ServerInfo
        /\ Len(stdout) - 1 = Processed
        /\ \A k \in 1..(Len(stdout) - 1) : Answers(stdout[k + 1], NonBlank[k])

OneLineAtATime ==
    Len(stdin') > Len(stdin) =>
        /\ pc = "readline"
        /\ Len(stdout) - 1 = Len(NonBlank)
        /\ stdin'[Len(stdin')] = Blank =>
              UNCHANGED <<personalities, collaborative_session,
                          session_history, stdout>>

C6_ProcessedInOrder == []InOrder /\ [][OneLineAtATime]_vars

\* a request, a blank line and another request: two envelopes, in order
C6_Witness ==
    /\ Len(stdin) = 3
    /\ IsRequest(stdin[1]) /\ stdin[2] = Blank /\ IsRequest(stdin[3])
    /\ RequestId(stdin[1]) = JInt(2) /\ RequestId(stdin[3]) = JInt(1)
    /\ Len(stdout) = 3
    /\ stdout[2].id = JInt(2) /\ stdout[3].id = JInt(1)
    /\ session_history /= <<>>

(***************************************************************************)
(* Two more alphabets of lines: calls that name a tool or a personality,   *)
(* and calls that start a session, read it back and ask for a consensus.   *)
(***************************************************************************)
StartCall(id, topic, initial_request) ==
    ToolCall(id, "start_collaborative_session",
             JDict(<< <<"topic", topic>>, <<"initial_request", initial_request>> >>))

ConsultCall(id, personality, question) ==
    ToolCall(id, "consult_personality",
             JDict(<< <<"personality", personality>>, <<"question", question>> >>))

AssignCall(id, personality, task) ==
    ToolCall(id, "assign_task",
             JDict(<< <<"personality", personality>>, <<"task", task>> >>))

ToolLines ==
    {Malformed, Json(JInt(42)),
     ToolCall(Id(JInt(1)), "no_such_tool", JDict(<<>>)),
     Request(Id(JInt(2)), "tools/call", JDict(<< <<"name", JInt(9)>> >>)),
     ConsultCall(Id(JInt(3)), JStr("wizard"), JStr("Which database?")),
     ConsultCall(Id(JInt(4)), JInt(3), JStr("Which database?")),
     ConsultCall(Id(JInt(5)), JStr("analyst"), JStr("Which database?")),
     AssignCall(Id(JInt(6)), JStr("Builder"), JStr("Build API")),
     AssignCall(Id(JInt(7)), JStr("implementer"), JStr("Build API")),
     ToolCall(Id(JInt(8)), "consult_personality", JDict(<<>>))}

NextTools == RunNext(ToolLines, MaxLines)

SpecTools == Init /\ [][NextTools]_vars

SessionLines ==
    {Malformed, Json(JInt(42)),
     StartCall(Id(JInt(1)), JStr("Launch"), JStr("Plan it")),
     ToolCall(Id(JInt(2)), "start_collaborative_session",
              JDict(<< <<"topic", JInt(7)>> >>)),
     ToolCall(Id(JInt(3)), "start_collaborative_session", JInt(5)),
     ResourceRead(Id(JInt(4)), "session://current"),
     ToolCall(Id(JInt(5)), "get_team_consensus",
              JDict(<< <<"topic", JStr("Tech Stack")>> >>)),
     ToolCall(Id(JInt(6)), "get_team_consensus",
              JDict(<< <<"topic", JStr("Scope")>>,
                       <<"details", JStr("MVP \"first\"")>> >>)),
     ConsultCall(Id(JInt(7)), JStr("analyst"), JStr("Which database?"))}

NextSession == RunNext(SessionLines, MaxLines)

SpecSession == Init /\ [][NextSession]_vars

FeedbackCall(id, arguments) == ToolCall(id, "personality_feedback", arguments)

FeedbackLines ==
    {Malformed, Json(JInt(42)),
     FeedbackCall(Id(JInt(1)), JDict(<< <<"proposal", JStr("Ship v2")>> >>)),
     FeedbackCall(Id(JInt(2)),
                  JDict(<< <<"proposal", JStr("Ship v2")>>,
                           <<"focus_areas", JList(<<JStr("cost"), JStr("risk")>>)>> >>)),
     FeedbackCall(Id(JInt(3)),
                  JDict(<< <<"proposal", JStr("Go")>>, <<"focus_areas", JInt(5)>> >>)),
     FeedbackCall(Id(JInt(4)), JStr("Ship v2")),
     StartCall(Id(JInt(5)), JStr("Launch"), JStr("Plan it")),
     ConsultCall(Id(JInt(6)), JStr("manager"), JStr("Who decides?"))}

NextFeedback == RunNext(FeedbackLines, MaxLines)

SpecFeedback == Init /\ [][NextFeedback]_vars

PriorityCall(id, personality, task, priority) ==
    ToolCall(id, "assign_task",
             JDict(<< <<"personality", personality>>, <<"task", task>>,
                      <<"priority", priority>> >>))

AssignLines ==
    {Malformed, Json(JInt(42)),
     PriorityCall(Id(JInt(1)), JStr("implementer"), JStr("Build API"), JStr("high")),
     AssignCall(Id(JInt(2)), JStr("implementer"), JStr("Write tests")),
     PriorityCall(Id(JInt(3)), JStr("analyst"), JStr("Review"), JStr("low")),
     PriorityCall(Id(JInt(4)), JStr("implementer"), JStr("Build API"), JInt(1)),
     AssignCall(Id(JInt(5)), JStr("Builder"), JStr("Build API")),
     ToolCall(Id(JInt(6)), "get_personality_status", JDict(<<>>)),
     ConsultCall(Id(JInt(7)), JStr("analyst"), JStr("Which database?"))}

NextTasks == RunNext(AssignLines, MaxLines)

SpecTasks == Init /\ [][NextTasks]_vars

\* a question of exactly QUERY_PREVIEW characters
FullQuestion ==
    "abcdefghijabcdefghijabcdefghijabcdefghijabcdefghijabcdefghijabcdefghijabcdefghijabcdefghijabcdefghij"

\* a question of more than QUERY_PREVIEW characters
LongQuestion == FullQuestion \o "#tail"

AskCall(id, personality, question, background) ==
    ToolCall(id, "consult_personality",
             JDict(<< <<"personality", personality>>, <<"question", question>>,
                      <<"context", background>> >>))

RenderLines ==
    {Malformed, Json(JInt(42)),
     ConsultCall(Id(JInt(1)), JStr("manager"), JStr(LongQuestion)),
     ConsultCall(Id(JInt(2)), JStr("analyst"), JStr(LongQuestion)),
     ConsultCall(Id(JInt(3)), JStr("creative"), JStr(LongQuestion)),
     ConsultCall(Id(JInt(5)), JStr("implementer"), JStr(LongQuestion)),
     ConsultCall(Id(JInt(6)), JStr("analyst"), JStr(FullQuestion)),
     ConsultCall(Id(JInt(7)), JStr("creative"), JStr("Why?")),
     AskCall(Id(JInt(8)), JStr("critic"), JStr("Why?"), JStr(LongQuestion))}

NextRender == RunNext(RenderLines, MaxLines)

SpecRender == Init /\ [][NextRender]_vars

\* requests whose handler raises, and a consultation that does not
FaultLines ==
    {Malformed, Json(JInt(42)),
     Request(Id(JInt(1)), "tools/call", JInt(5)),
     ToolCall(Id(JStr("a")), "consult_personality", JList(<<>>)),
     PriorityCall(Id(JInt(3)), JStr("implementer"), JStr("Build API"), JInt(1)),
     ConsultCall(Id(JInt(4)), JStr("analyst"), JInt(3)),
     FeedbackCall(Id(JInt(5)),
                  JDict(<< <<"proposal", JStr("Go")>>, <<"focus_areas", JInt(5)>> >>)),
     Request(Id(JInt(6)), "resources/read", JDict(<< <<"uri", JInt(7)>> >>)),
     Request(NoId, "resources/read", JNone),
     ConsultCall(Id(JInt(10)), JStr("analyst"), JStr("Which database?"))}

NextFaults == RunNext(FaultLines, MaxLines)

SpecFaults == Init /\ [][NextFaults]_vars

\* the nine requests of the test client, with its params and arguments
ClientRequests ==
    {Request(Id(JInt(1)), "initialize",
             JDict(<< <<"protocolVersion", JStr("2024-11-05")>>,
                      <<"capabilities", JDict(<<>>)>>,
                      <<"clientInfo",
                        JDict(<< <<"name", JStr("test-client")>>,
                                 <<"version", JStr("1.0.0")>> >>)>> >>)),
     Request(Id(JInt(2)), "tools/list", JDict(<<>>)),
     Request(Id(JInt(3)), "resources/list", JDict(<<>>)),
     AskCall(Id(JInt(4)), JStr("creative"),
             JStr("How can we make our user interface more engaging and user-friendly?"),
             JStr("We're building a task management application")),
     ToolCall(Id(JInt(5)), "get_team_consensus",
              JDict(<< <<"topic", JStr("Technology stack selection")>>,
                       <<"details",
                         JStr("Should we use React or Vue.js for our frontend framework?")>> >>)),
     PriorityCall(Id(JInt(6)), JStr("implementer"),
                  JStr("Create a RESTful API endpoint for user authentication"),
                  JStr("high")),
     ToolCall(Id(JInt(7)), "get_personality_status", JDict(<<>>)),
     StartCall(Id(JInt(8)), JStr("New Product Development"),
               JStr("We need to design and develop a new mobile app for task management. Please coordinate the team approach.")),
     ResourceRead(Id(JInt(9)), "personality://manager")}

ClientLines == {Malformed, Json(JInt(42))} \cup ClientRequests

NextClient == RunNext(ClientLines, MaxLines)

SpecClient == Init /\ [][NextClient]_vars

\* the requests that only read, after requests that write
ReadOnlyLines ==
    {Malformed, Json(JInt(42)),
     Request(Id(JInt(1)), "initialize", JDict(<<>>)),
     Request(Id(JInt(2)), "tools/list", JDict(<<>>)),
     Request(Id(JInt(3)), "resources/list", JDict(<<>>)),
     ResourceRead(Id(JInt(4)), "personality://analyst"),
     ResourceRead(Id(JInt(5)), "session://history"),
     ResourceRead(Id(JInt(6)), "nowhere://x"),
     ToolCall(Id(JInt(7)), "get_personality_status", JDict(<<>>)),
     ToolCall(Id(JInt(8)), "no_such_tool",
              JDict(<< <<"personality", JStr("analyst")>>,
                       <<"task", JStr("Review")>> >>)),
     Request(Id(JInt(9)), "foo/bar", JDict(<<>>)),
     StartCall(Id(JInt(10)), JStr("Launch"), JStr("Plan it")),
     AssignCall(Id(JInt(11)), JStr("implementer"), JStr("Build API"))}

NextReadOnly == RunNext(ReadOnlyLines, MaxLines)

SpecReadOnly == Init /\ [][NextReadOnly]_vars

\* a whole second passes while run() waits for a line
SecondPasses ==
    /\ pc = "readline"
    /\ SecondOf(now) < MaxSeconds
    /\ now' = now + TicksPerSecond
    /\ UNCHANGED <<personalities, collaborative_session, session_history, context,
                   stdin, stdout, pc>>

ClockLines ==
    {Malformed, Json(JInt(42)),
     StartCall(Id(JInt(1)), JStr("Launch"), JStr("Plan it")),
     StartCall(Id(JInt(2)), JStr("Retro"), JStr("Look back"))}

NextClock == RunNext(ClockLines, MaxLines) \/ SecondPasses

SpecClock == Init /\ [][NextClock]_vars

(***************************************************************************)
(* Reading a tools/call line.                                              *)
(***************************************************************************)
ParamsOf(l) == DictGet(l.json, "params", JDict(<<>>))

IsToolCall(l) ==
    IsRequest(l) /\ StrEq(MethodOf(l), "tools/call") /\ IsDict(ParamsOf(l))

ToolNameOf(l) == DictGet(ParamsOf(l), "name", JStr(""))

ArgumentsOf(l) == DictGet(ParamsOf(l), "arguments", JDict(<<>>))

\* a call of the tool `name` whose arguments are an object
Calls(l, name) ==
    IsToolCall(l) /\ StrEq(ToolNameOf(l), name) /\ IsDict(ArgumentsOf(l))

ToolCatalog ==
    {"start_collaborative_session", "consult_personality", "get_team_consensus",
     "personality_feedback", "assign_task", "get_personality_status"}

NamesUnknownTool(l) ==
    IsToolCall(l) /\ ~(IsStr(ToolNameOf(l)) /\ ToolNameOf(l).v \in ToolCatalog)

PersonaOf(l) == DictGet(ArgumentsOf(l), "personality", JStr(""))

NamesUnknownPersona(l) ==
    /\ Calls(l, "consult_personality") \/ Calls(l, "assign_task")
    /\ ~(IsStr(PersonaOf(l))
         /\ PersonaOf(l).v \in {"manager", "analyst", "creative", "critic",
                                "implementer"})

\* the only content of a tool result is one text
TextResult(text) == [content |-> <<[type |-> "text", text |-> text]>>]

(***************************************************************************)
(* C4, as claimed.  A tools/call naming an unknown tool, and a             *)
(* consult_personality or assign_task call naming an unknown persona, are  *)
(* answered with an error envelope with code -32603 and no result.         *)
(***************************************************************************)
C4_UnknownToolOrPersonaIsError ==
    \A k \in 1..Len(NonBlank) :
        ((NamesUnknownTool(NonBlank[k]) \/ NamesUnknownPersona(NonBlank[k]))
         /\ Answered(k)) =>
            /\ IsError(stdout[k + 1], INTERNAL_ERROR)
            /\ "result" \notin Fields(stdout[k + 1])

(***************************************************************************)
(* C4, as the code has it.  Such a call is answered with a result          *)
(* envelope that carries the request's id and no error member; its one     *)
(* text is "Unknown tool: <name>" or "Unknown personality: <persona>"; the *)
(* loop goes on.                                                           *)
(***************************************************************************)
C4_UnknownToolOrPersonaIsResult ==
    \A k \in 1..Len(NonBlank) :
        (NamesUnknownTool(NonBlank[k]) \/ NamesUnknownPersona(NonBlank[k])) =>
            /\ LoopWentOn(k)
            /\ ~Answered(k) => (pc = "loads" /\ k = Len(NonBlank))
            /\ Answered(k) =>
                  /\ IsResult(stdout[k + 1])
                  /\ stdout[k + 1].id = RequestId(NonBlank[k])
                  /\ stdout[k + 1].result =
                        TextResult(IF NamesUnknownTool(NonBlank[k])
                                   THEN "Unknown tool: "
                                        \o PyStr(ToolNameOf(NonBlank[k]))
                                   ELSE "Unknown personality: "
                                        \o PyStr(PersonaOf(NonBlank[k])))

\* an unknown tool and an unknown persona were both answered, and so was the
\* line after them
C4_Witness ==
    /\ Len(NonBlank) = 3
    /\ NamesUnknownTool(NonBlank[1])
    /\ NamesUnknownPersona(NonBlank[2])
    /\ Answered(3)
    /\ stdout[2].result = TextResult("Unknown tool: no_such_tool")
    /\ stdout[3].result = TextResult("Unknown personality: wizard")

(***************************************************************************)
(* Sessions.                                                               *)
(***************************************************************************)
IsStart(l) == Calls(l, "start_collaborative_session")

TopicOf(l) == DictGet(ArgumentsOf(l), "topic", JStr(""))

InitialRequestOf(l) == DictGet(ArgumentsOf(l), "initial_request", JStr(""))

ReadsCurrentSession(l) ==
    /\ IsRequest(l)
    /\ StrEq(MethodOf(l), "resources/read")
    /\ IsDict(ParamsOf(l))
    /\ StrEq(DictGet(ParamsOf(l), "uri", JStr("")), "session://current")

\* the start calls among the first n non-blank lines
StartsUpTo(n) == {j \in 1..n : IsStart(NonBlank[j])}

Latest(S) == CHOOSE j \in S : \A i \in S : i <= j

\* the session record of a start with topic T and initial request R made
\* when the clock read c
SessionRecord(T, R, c) ==
    JDict(<< <<"session_id", JStr(SessionId(c))>>,
             <<"topic", T>>,
             <<"initial_request", R>>,
             <<"started_at", JStr(IsoFormat(c))>>,
             <<"status", JStr("active")>>,
             <<"participants",
               JList(<<JStr("manager"), JStr("analyst"), JStr("creative"),
                       JStr("critic"), JStr("implementer")>>)>> >>)

\* the text session://current returns for that record
SessionText(T, R, c) ==
    "{\n  \"session_id\": \"" \o SessionId(c)
    \o "\",\n  \"topic\": " \o JsonDumps(T, 1)
    \o ",\n  \"initial_request\": " \o JsonDumps(R, 1)
    \o ",\n  \"started_at\": \"" \o IsoFormat(c)
    \o "\",\n  \"status\": \"active\",\n  \"participants\": [\n"
    \o "    \"manager\",\n    \"analyst\",\n    \"creative\",\n"
    \o "    \"critic\",\n    \"implementer\"\n  ]\n}"

(***************************************************************************)
(* C7.  After start_collaborative_session with topic T and initial request *)
(* R, session://current reads back a session with topic T, initial request *)
(* R, status "active" and the participants manager, analyst, creative,     *)
(* critic, implementer in that order.                                      *)
(***************************************************************************)
C7_SessionReadsBack ==
    \A k \in 1..Len(NonBlank) :
        (ReadsCurrentSession(NonBlank[k]) /\ Answered(k)
         /\ StartsUpTo(k - 1) /= {}) =>
            /\ IsResult(stdout[k + 1])
            /\ \E c \in 0..MaxClock :
                  stdout[k + 1].result =
                      [contents |-> <<[type |-> "text",
                          text |-> SessionText(
                              TopicOf(NonBlank[Latest(StartsUpTo(k - 1))]),
                              InitialRequestOf(NonBlank[Latest(StartsUpTo(k - 1))]),
                              c)]>>]

\* a session was started at the second tick and then read back
C7_Witness ==
    /\ Len(NonBlank) = 2
    /\ IsStart(NonBlank[1]) /\ TopicOf(NonBlank[1]) = JStr("Launch")
    /\ ReadsCurrentSession(NonBlank[2])
    /\ Answered(2)
    /\ stdout[3].result.contents[1].text
           = SessionText(JStr("Launch"), JStr("Plan it"), 1)

(***************************************************************************)
(* C8.  There is at most one session record: it is empty until the first   *)
(* start, and after that it is exactly the record of the latest start; a   *)
(* start made while a session exists is answered with a result and leaves  *)
(* nothing of the earlier session.                                         *)
(***************************************************************************)
\* the lines run() has answered
AnsweredLines == Len(stdout) - 1

OneSession ==
    /\ StartsUpTo(AnsweredLines) = {} => collaborative_session = JDict(<<>>)
    /\ StartsUpTo(AnsweredLines) /= {} =>
          \E c \in 0..MaxClock :
              collaborative_session =
                  SessionRecord(
                      TopicOf(NonBlank[Latest(StartsUpTo(AnsweredLines))]),
                      InitialRequestOf(NonBlank[Latest(StartsUpTo(AnsweredLines))]),
                      c)
    /\ \A j \in StartsUpTo(AnsweredLines) :
          IsResult(stdout[j + 1]) /\ stdout[j + 1].id = RequestId(NonBlank[j])

StartReplaces ==
    (pc = "loads" /\ IsStart(line) /\ pc' = "readline") =>
        collaborative_session' =
            SessionRecord(TopicOf(line), InitialRequestOf(line), now)

C8_SecondStartReplaces == []OneSession /\ [][StartReplaces]_vars

\* two starts with different topics and requests, the second a tick later
C8_Witness ==
    /\ Len(NonBlank) = 2
    /\ IsStart(NonBlank[1]) /\ TopicOf(NonBlank[1]) = JStr("Launch")
    /\ IsStart(NonBlank[2]) /\ TopicOf(NonBlank[2]) = JInt(7)
    /\ Answered(2)
    /\ IsResult(stdout[3])
    /\ collaborative_session = SessionRecord(JInt(7), JStr(""), 1)

(***************************************************************************)
(* Team consensus.                                                         *)
(***************************************************************************)
IsConsensus(l) == Calls(l, "get_team_consensus")

\* "Topic: <topic>", with the details when they are given and not empty
FullQueryOf(l) ==
    "Topic: " \o PyStr(TopicOf(l))
    \o (IF Truthy(DictGet(ArgumentsOf(l), "details", JStr("")))
        THEN "\n\nDetails: " \o PyStr(DictGet(ArgumentsOf(l), "details", JStr("")))
        ELSE "")

\* the names of the personalities a consensus call invokes, in order
Invoked == <<"Director", "Logic", "Spark", "Guardian", "Builder", "Director">>

\* the text of the i-th of the records h
Said(h, i) == h[i].content.v

\* the result text made of the twelve records h of one consensus call
ConsensusText(topic, h) ==
    "**Team Consensus on: " \o PyStr(topic) \o "**\n\n"
    \o "**Director (Project Manager & Coordinator):**\n" \o Said(h, 2) \o "\n\n"
    \o "**Logic (Data Analyst & Strategic Thinker):**\n" \o Said(h, 4) \o "\n\n"
    \o "**Spark (Creative Innovator & Solution Designer):**\n" \o Said(h, 6) \o "\n\n"
    \o "**Guardian (Quality Assurance & Process Optimizer):**\n" \o Said(h, 8) \o "\n\n"
    \o "**Builder (Implementation Specialist & Problem Solver):**\n" \o Said(h, 10) \o "\n\n"
    \o "**Final Consensus (Manager):**\n" \o Said(h, 12)

\* run() has just answered a consensus call
ConsensusAnswered ==
    /\ pc = "readline"
    /\ NonBlank /= <<>>
    /\ IsConsensus(NonBlank[Len(NonBlank)])

(***************************************************************************)
(* C9.  The text of get_team_consensus is its title, then five sections,   *)
(* one per personality in the order manager, analyst, creative, critic,    *)
(* implementer, each holding that personality's response, then the Final   *)
(* Consensus section with the manager's final response, and nothing after  *)
(* it; this for every topic and every state the call is made in.           *)
(***************************************************************************)
C9_ConsensusSections ==
    ConsensusAnswered =>
        /\ IsResult(stdout[Len(stdout)])
        /\ Len(session_history) >= 12
        /\ \A i \in 1..6 :
              /\ LastN(session_history, 12)[2 * i].type = "response"
              /\ LastN(session_history, 12)[2 * i].personality = Invoked[i]
        /\ stdout[Len(stdout)].result =
              TextResult(ConsensusText(TopicOf(NonBlank[Len(NonBlank)]),
                                       LastN(session_history, 12)))

\* a consensus on "Tech Stack" asked after an earlier consensus
C9_Witness ==
    /\ ConsensusAnswered
    /\ Len(NonBlank) = 2
    /\ IsConsensus(NonBlank[1])
    /\ TopicOf(NonBlank[2]) = JStr("Tech Stack")
    /\ Len(session_history) = 24
    /\ StartsWith(stdout[3].result.content[1].text,
                  "**Team Consensus on: Tech Stack**\n\n**Director (Project Manager")

(***************************************************************************)
(* C10.  One get_team_consensus call invokes manager, analyst, creative,   *)
(* critic, implementer and then the manager again: the shared history      *)
(* grows by exactly twelve records, the query and the response of those    *)
(* six invocations in that order; the manager's log grows by four records  *)
(* and every other log by two; the final query to the manager contains the *)
(* five collected responses.                                               *)
(***************************************************************************)
\* the records a step appended to the shared history
Appended == SubSeq(session_history', Len(session_history) + 1, Len(session_history'))

LogGrowth(p) ==
    Len(personalities'[p].conversation_history)
    - Len(personalities[p].conversation_history)

\* the step in which run() answers a consensus call
ConsensusStep == pc = "loads" /\ IsConsensus(line) /\ pc' = "readline"

ConsensusFanOut ==
    ConsensusStep =>
        /\ Len(session_history') = Len(session_history) + 12
        /\ SubSeq(session_history', 1, Len(session_history)) = session_history
        /\ \A i \in 1..6 :
              /\ Appended[2 * i - 1].type = "query"
              /\ Appended[2 * i - 1].personality = Invoked[i]
              /\ Appended[2 * i].type = "response"
              /\ Appended[2 * i].personality = Invoked[i]
        /\ \A i \in 1..5 :
              Said(Appended, 2 * i - 1) =
                  "Please provide your perspective on this topic for team consensus: "
                  \o FullQueryOf(line)
        /\ Said(Appended, 11) =
              "Based on all team input, please provide a final consensus on: "
              \o FullQueryOf(line) \o "\n\nTeam responses: {\n"
              \o "  \"manager\": " \o JsonDumps(Appended[2].content, 1) \o ",\n"
              \o "  \"analyst\": " \o JsonDumps(Appended[4].content, 1) \o ",\n"
              \o "  \"creative\": " \o JsonDumps(Appended[6].content, 1) \o ",\n"
              \o "  \"critic\": " \o JsonDumps(Appended[8].content, 1) \o ",\n"
              \o "  \"implementer\": " \o JsonDumps(Appended[10].content, 1)
              \o "\n}"
        /\ LogGrowth("manager") = 4
        /\ \A p \in {"analyst", "creative", "critic", "implementer"} :
              LogGrowth(p) = 2
        /\ \A p \in {"manager", "analyst", "creative", "critic", "implementer"} :
              SubSeq(personalities'[p].conversation_history, 1,
                     Len(personalities[p].conversation_history))
                  = personalities[p].conversation_history

C10_ConsensusInvocations == [][ConsensusFanOut]_vars

\* a consensus asked in a session that had been started: 5 + 2 records of
\* the start and 12 of the consensus, the manager's log holding 1 + 2 + 4
C10_Witness ==
    /\ ConsensusAnswered
    /\ Len(NonBlank) = 2
    /\ IsStart(NonBlank[1])
    /\ Len(session_history) = 19
    /\ Len(personalities["manager"].conversation_history) = 7
    /\ Len(personalities["critic"].conversation_history) = 3

(***************************************************************************)
(* Feedback on a proposal.                                                 *)
(***************************************************************************)
ProposalOf(l) == DictGet(ArgumentsOf(l), "proposal", JStr(""))

\* the names of the personalities a feedback call invokes, in order
Reviewers == <<"Logic", "Spark", "Guardian", "Builder", "Director">>

\* the result text made of the ten records h of one feedback call
FeedbackText(proposal, h) ==
    "**Feedback on Proposal:**\n" \o PyStr(proposal) \o "\n\n"
    \o "**Logic (Data Analyst & Strategic Thinker):**\n" \o Said(h, 2) \o "\n\n"
    \o "**Spark (Creative Innovator & Solution Designer):**\n" \o Said(h, 4) \o "\n\n"
    \o "**Guardian (Quality Assurance & Process Optimizer):**\n" \o Said(h, 6) \o "\n\n"
    \o "**Builder (Implementation Specialist & Problem Solver):**\n" \o Said(h, 8) \o "\n\n"
    \o "**Manager Assessment:**\n" \o Said(h, 10)

\* the step in which run() answers a feedback call with a result
FeedbackStep ==
    /\ pc = "loads" /\ Calls(line, "personality_feedback") /\ pc' = "readline"
    /\ IsResult(stdout'[Len(stdout')])

\* the records a step appended to the log of p
AppendedTo(p) ==
    SubSeq(personalities'[p].conversation_history,
           Len(personalities[p].conversation_history) + 1,
           Len(personalities'[p].conversation_history))

FeedbackFanOut ==
    FeedbackStep =>
        /\ Len(session_history') = Len(session_history) + 10
        /\ SubSeq(session_history', 1, Len(session_history)) = session_history
        /\ \A i \in 1..5 :
              /\ Appended[2 * i - 1].type = "query"
              /\ Appended[2 * i - 1].personality = Reviewers[i]
              /\ Appended[2 * i].type = "response"
              /\ Appended[2 * i].personality = Reviewers[i]
        /\ AppendedTo("manager") = <<Appended[9], Appended[10]>>
        /\ StartsWith(Said(Appended, 9),
                      "Review all team feedback and provide final assessment on: "
                      \o PyStr(ProposalOf(line)) \o "\n\nTeam feedback: {\n  \"analyst\": ")
        /\ \A p \in {"analyst", "creative", "critic", "implementer"} :
              LogGrowth(p) = 2
        /\ stdout'[Len(stdout')].result =
              TextResult(FeedbackText(ProposalOf(line), Appended))

(***************************************************************************)
(* C11.  personality_feedback asks analyst, creative, critic, implementer  *)
(* in that order and only then the manager, once, for the assessment: the  *)
(* manager's log grows by exactly one query and one response, and the text *)
(* has the four sections of the others followed by the Manager Assessment  *)
(* section, with no section of the manager among the four.                 *)
(***************************************************************************)
C11_FeedbackLeavesManagerLast == [][FeedbackFanOut]_vars

\* a feedback with focus areas, asked after the manager was consulted
C11_Witness ==
    /\ pc = "readline"
    /\ Len(NonBlank) = 2
    /\ Calls(NonBlank[1], "consult_personality")
    /\ Calls(NonBlank[2], "personality_feedback")
    /\ IsResult(stdout[3])
    /\ Len(session_history) = 12
    /\ Len(personalities["manager"].conversation_history) = 4
    /\ StartsWith(session_history[3].content.v,
                  "Please provide feedback on this proposal: Ship v2\n\nPlease focus on: cost, risk")

(***************************************************************************)
(* Task assignment.                                                        *)
(***************************************************************************)
Tags == {"manager", "analyst", "creative", "critic", "implementer"}

TaskOf(l) == DictGet(ArgumentsOf(l), "task", JStr(""))

PriorityOf(l) == DictGet(ArgumentsOf(l), "priority", JStr("medium"))

\* an assign_task call to the personality p whose priority is a string
AssignsTo(l, p) ==
    /\ Calls(l, "assign_task")
    /\ PersonaOf(l) = JStr(p)
    /\ IsStr(PriorityOf(l))

\* the priorities of the tool's schema, in upper case
PriorityTag(priority) ==
    CASE priority = "high" -> "HIGH"
      [] priority = "medium" -> "MEDIUM"
      [] priority = "low" -> "LOW"

\* the entry an assign_task line adds to the task list
EntryOf(l) == "[" \o PriorityTag(PriorityOf(l).v) \o "] " \o PyStr(TaskOf(l))

\* the step in which run() answers an assign_task call to p
AssignStep(p) == pc = "loads" /\ AssignsTo(line, p) /\ pc' = "readline"

\* the answered assign_task calls to p among the first n non-blank lines
AssignedUpTo(n, p) == {j \in 1..n : AssignsTo(NonBlank[j], p)}

\* sub occurs in s
Contains(s, sub) ==
    \E i \in 1..(Len(s) - Len(sub) + 1) : SubSeq(s, i, i + Len(sub) - 1) = sub

\* the head of the status report of the personality p with n tasks
StatusHead(p, n) ==
    "**" \o personalities[p].name \o " (" \o personalities[p].role \o "):**\n"
    \o "- Status: Active\n- Assigned Tasks: " \o ToString(n) \o "\n"

IsStatus(l) == Calls(l, "get_personality_status")

AssignAppends ==
    \A p \in Tags :
        AssignStep(p) =>
            /\ IsResult(stdout'[Len(stdout')])
            /\ personalities'[p].tasks_assigned =
                  Append(personalities[p].tasks_assigned, EntryOf(line))
            /\ \A other \in Tags \ {p} :
                  personalities'[other].tasks_assigned =
                      personalities[other].tasks_assigned

TaskCounts ==
    /\ \A p \in Tags :
          Len(personalities[p].tasks_assigned)
              = Cardinality(AssignedUpTo(AnsweredLines, p))
    /\ \A k \in 1..Len(NonBlank) :
          (IsStatus(NonBlank[k]) /\ Answered(k)) =>
              /\ IsResult(stdout[k + 1])
              /\ \A p \in Tags :
                    Contains(stdout[k + 1].result.content[1].text,
                             StatusHead(p, Cardinality(AssignedUpTo(k - 1, p))))

(***************************************************************************)
(* C12.  assign_task with a valid persona p appends "[" + uppercase(q) +   *)
(* "] " + t as the last element of p's task list, q being medium when it   *)
(* is omitted, and leaves every other task list unchanged; a status report *)
(* made afterwards gives for each persona the number of assign_task calls  *)
(* that succeeded for it so far.                                           *)
(***************************************************************************)
C12_AssignTaskAppends == []TaskCounts /\ [][AssignAppends]_vars

\* two tasks for the implementer, one with the default priority, and then
\* the status report
C12_Witness ==
    /\ Len(NonBlank) = 3
    /\ Answered(3)
    /\ IsStatus(NonBlank[3])
    /\ personalities["implementer"].tasks_assigned
           = <<"[HIGH] Build API", "[MEDIUM] Write tests">>
    /\ Contains(stdout[4].result.content[1].text, "- Assigned Tasks: 2\n")
    /\ Contains(stdout[4].result.content[1].text, "- Assigned Tasks: 0\n")

(***************************************************************************)
(* C13.  In assign_task the task is appended and the task_assigned record  *)
(* is logged before the acknowledgment is asked for: the context built for *)
(* the acknowledgment lists the new task as the last assigned task, and in *)
(* the persona's log and in the shared history the task_assigned record    *)
(* comes before the acknowledgment's query, which comes before its         *)
(* response.                                                               *)
(***************************************************************************)
\* the tasks_assigned member of the context built last
ContextTasks(ctx) == DictGet(DictGet(ctx, "personality", JDict(<<>>)),
                             "tasks_assigned", JList(<<>>)).v

RecordedBeforeAcknowledged ==
    \A p \in Tags :
        AssignStep(p) =>
            /\ Len(Appended) = 3
            /\ AppendedTo(p) = Appended
            /\ Appended[1].type = "task_assigned"
            /\ Appended[1].content = JStr("Task assigned: " \o EntryOf(line))
            /\ Appended[2].type = "query"
            /\ StartsWith(Said(Appended, 2), "You have been assigned a new task: ")
            /\ Appended[3].type = "response"
            /\ DictGet(DictGet(context', "personality", JDict(<<>>)), "name", JNone)
                   = JStr(personalities[p].name)
            /\ ContextTasks(context') /= <<>>
            /\ ContextTasks(context')[Len(ContextTasks(context'))]
                   = JStr(EntryOf(line))

C13_TaskRecordedBeforeAcknowledgment == [][RecordedBeforeAcknowledged]_vars

\* a second task for the implementer: the context of its acknowledgment
\* lists both tasks
C13_Witness ==
    /\ pc = "readline"
    /\ Len(NonBlank) = 2
    /\ AssignsTo(NonBlank[1], "implementer")
    /\ AssignsTo(NonBlank[2], "implementer")
    /\ ContextTasks(context) = <<JStr("[HIGH] Build API"), JStr("[MEDIUM] Write tests")>>
    /\ Len(session_history) = 6
    /\ session_history[4].type = "task_assigned"

(***************************************************************************)
(* Rendering.                                                              *)
(***************************************************************************)
\* the tag of the personality named in a record
TagOf(name) == CHOOSE p \in Tags : initialize_personalities[p].name = name

\* the queries of the consultations read so far
AskedQueries ==
    {ConsultFullQuery(DictGet(ArgumentsOf(NonBlank[k]), "question", JStr("")),
                      DictGet(ArgumentsOf(NonBlank[k]), "context", JStr("")))
        : k \in {j \in 1..Len(NonBlank) : Calls(NonBlank[j], "consult_personality")}}

\* the i-th record is a response and the record before it is its query
IsRendered(h, i) ==
    /\ i > 1
    /\ h[i].type = "response"
    /\ h[i - 1].type = "query"
    /\ h[i - 1].personality = h[i].personality

SameQuerySameText ==
    \A i, j \in 1..Len(session_history) :
        ( /\ IsRendered(session_history, i)
          /\ IsRendered(session_history, j)
          /\ session_history[i].personality = session_history[j].personality
          /\ session_history[i - 1].content = session_history[j - 1].content )
        => session_history[i].content = session_history[j].content

RenderIgnoresState ==
    \A p \in Tags : \A q \in {x \in AskedQueries : Sliceable(x)} :
        /\ generate_demo_response(Manager, p, q, context)
               = generate_demo_response(PersonalityManager, p, q, JNone)
        /\ \A i \in 1..Len(session_history) :
              ( /\ IsRendered(session_history, i)
                /\ session_history[i].personality = initialize_personalities[p].name
                /\ session_history[i - 1].content = q )
              => Said(session_history, i)
                     = generate_demo_response(PersonalityManager, p, q, JNone)

(***************************************************************************)
(* C14.  The rendered response is a function of the persona tag and the    *)
(* query only: two renders for the same tag and the same query give the    *)
(* same text whatever the context passed in and whatever was logged or     *)
(* assigned in between.                                                    *)
(***************************************************************************)
C14_ResponseDependsOnTagAndQuery == SameQuerySameText /\ RenderIgnoresState

\* the analyst is asked, is given a task, and is asked the same again
C14_Witness ==
    /\ pc = "readline"
    /\ Len(NonBlank) = 3
    /\ Calls(NonBlank[1], "consult_personality")
    /\ AssignsTo(NonBlank[2], "analyst")
    /\ NonBlank[3] = NonBlank[1]
    /\ Len(session_history) = 7
    /\ IsRendered(session_history, 2)
    /\ IsRendered(session_history, 7)
    /\ session_history[6].content = session_history[1].content
    /\ ContextTasks(context) = <<JStr("[LOW] Review")>>

\* the first 100 characters of a query string
First100(q) == IF Len(q) <= 100 THEN q ELSE SubSeq(q, 1, 100)

\* a character that no template holds
Marker == "#"

PreviewOnly ==
    \A i \in 1..Len(session_history) :
        (IsRendered(session_history, i) /\ IsStr(session_history[i - 1].content))
        => /\ Contains(Said(session_history, i),
                       "\"" \o First100(Said(session_history, i - 1)) \o "...\"")
           /\ Said(session_history, i)
                  = generate_demo_response(PersonalityManager,
                                           TagOf(session_history[i].personality),
                                           JStr(First100(Said(session_history, i - 1))),
                                           JNone)
           /\ ~Contains(First100(Said(session_history, i - 1)), Marker)
                  => ~Contains(Said(session_history, i), Marker)

(***************************************************************************)
(* C15.  For each of the five persona tags and every query string the      *)
(* rendered text contains the first 100 characters of the query verbatim   *)
(* (the whole query when it is shorter) and nothing of the query beyond    *)
(* the 100th character: it is the text rendered for the query cut at 100.  *)
(***************************************************************************)
C15_ResponseQuotesFirstHundred == PreviewOnly

\* a query of 105 characters was rendered: the text quotes its first 100 and
\* holds nothing of the rest; a query of 4 characters is quoted whole
C15_Witness ==
    /\ Len(session_history) = 4
    /\ IsRendered(session_history, 2)
    /\ IsRendered(session_history, 4)
    /\ Len(Said(session_history, 1)) = 105
    /\ Contains(Said(session_history, 1), Marker)
    /\ Contains(Said(session_history, 2), "\"" \o FullQuestion \o "...\"")
    /\ ~Contains(Said(session_history, 2), Marker)
    /\ Said(session_history, 3) = "Why?"
    /\ Contains(Said(session_history, 4), "\"Why?...\"")

(***************************************************************************)
(* The registry.                                                           *)
(***************************************************************************)
\* name and role of each tag, as initialize_personalities writes them
StaticTable ==
    [manager |-> <<"Director", "Project Manager & Coordinator">>,
     analyst |-> <<"Logic", "Data Analyst & Strategic Thinker">>,
     creative |-> <<"Spark", "Creative Innovator & Solution Designer">>,
     critic |-> <<"Guardian", "Quality Assurance & Process Optimizer">>,
     implementer |-> <<"Builder", "Implementation Specialist & Problem Solver">>]

RegistryIsStatic ==
    /\ DOMAIN personalities = Tags
    /\ DOMAIN StaticTable = Tags
    /\ \A p \in Tags :
          /\ personalities[p].personality_type = p
          /\ personalities[p].name = StaticTable[p][1]
          /\ personalities[p].role = StaticTable[p][2]
          /\ personalities[p].description = initialize_personalities[p].description
          /\ personalities[p].active = TRUE
    /\ \A p, o \in Tags : p /= o => personalities[p].name /= personalities[o].name

(***************************************************************************)
(* C16.  In every reachable state the registry holds exactly one record    *)
(* for each of the five tags and no other, and each record's tag, name and *)
(* role are those of the static table; no request creates, removes,        *)
(* renames or deactivates a persona.                                       *)
(***************************************************************************)
C16_RegistryIsStatic == RegistryIsStatic

\* requests have written to the implementer's and the analyst's records
C16_Witness ==
    /\ Len(personalities["implementer"].tasks_assigned) = 2
    /\ Len(personalities["implementer"].conversation_history) = 6
    /\ Len(personalities["analyst"].conversation_history) = 2
    /\ personalities["analyst"].last_activity /= JNone
    /\ personalities["implementer"].name = "Builder"
    /\ personalities["implementer"].active

(***************************************************************************)
(* The logs.                                                               *)
(***************************************************************************)
\* the records of the shared history that name the personality p
HistoryOf(p) ==
    SelectSeq(session_history, LAMBDA r : r.personality = personalities[p].name)

LogOf(p) == personalities[p].conversation_history

LogsMirrorHistory ==
    /\ \A p \in Tags : HistoryOf(p) = LogOf(p)
    /\ \A i \in 1..Len(session_history) :
          \E p \in Tags : session_history[i].personality = personalities[p].name
    /\ Len(session_history)
           = Len(LogOf("manager")) + Len(LogOf("analyst")) + Len(LogOf("creative"))
             + Len(LogOf("critic")) + Len(LogOf("implementer"))

(***************************************************************************)
(* C17.  Every interaction record is appended both to its persona's log    *)
(* and to the shared history: the shared history restricted to the records *)
(* of one persona is that persona's log, same records in the same order,   *)
(* and the shared history is as long as the five logs together.            *)
(***************************************************************************)
C17_LogsMirrorHistory == LogsMirrorHistory

\* a session start with an initial request and a feedback round: seventeen
\* records interleaved in the shared history, five of them the manager's
C17_Witness ==
    /\ Len(session_history) = 17
    /\ \A p \in Tags \ {"manager"} : Len(LogOf(p)) = 3
    /\ Len(LogOf("manager")) = 5
    /\ session_history[1].type = "session_start"
    /\ session_history[7].personality = "Director"
    /\ session_history[8].personality = "Logic"
    /\ session_history[17].personality = "Director"
    /\ session_history[17].type = "response"

\* s is the beginning of t
IsPrefix(s, t) == Len(s) <= Len(t) /\ SubSeq(t, 1, Len(s)) = s

AppendOnly ==
    /\ IsPrefix(session_history, session_history')
    /\ \A p \in Tags : IsPrefix(LogOf(p), LogOf(p)')

(***************************************************************************)
(* C18.  The shared history and every persona log are append-only: across  *)
(* any request the value before is a prefix of the value after; no record  *)
(* is removed, reordered or modified, also when a new session is started.  *)
(***************************************************************************)
C18_LogsAppendOnly == [][AppendOnly]_vars

\* a second session was started: the records of the first are still the
\* beginning of the history
C18_Witness ==
    /\ pc = "readline"
    /\ Len(NonBlank) = 2
    /\ IsStart(NonBlank[1])
    /\ IsStart(NonBlank[2])
    /\ TopicOf(NonBlank[1]) /= TopicOf(NonBlank[2])
    /\ Len(session_history) >= 10
    /\ Said(session_history, 1)
           = "New collaborative session started: " \o PyStr(TopicOf(NonBlank[1]))
    /\ session_history[Len(session_history) - 4].type = "session_start"
    /\ Said(session_history, Len(session_history) - 4)
           = "New collaborative session started: " \o PyStr(TopicOf(NonBlank[2]))
    /\ Len(LogOf("analyst")) = 2

(***************************************************************************)
(* The context of a response.                                              *)
(***************************************************************************)
\* the members of the enum in the order of their definition
EnumOrder == <<"manager", "analyst", "creative", "critic", "implementer">>

Others(p) == SelectSeq(EnumOrder, LAMBDA o : o /= p)

\* the last three records of a log, or all of them when it has fewer
LastThree(log) ==
    IF Len(log) <= 3 THEN log ELSE SubSeq(log, Len(log) - 2, Len(log))

\* what the context of p is to hold of the logs of the four others
TeamRecords(p) ==
    LastThree(LogOf(Others(p)[1])) \o LastThree(LogOf(Others(p)[2]))
    \o LastThree(LogOf(Others(p)[3])) \o LastThree(LogOf(Others(p)[4]))

\* the recent_team_interactions member of a context
TeamOf(ctx) == DictGet(ctx, "recent_team_interactions", JList(<<>>)).v

HoldsTeamRecords(ctx, p) ==
    /\ Len(TeamOf(ctx)) = Len(TeamRecords(p))
    /\ Len(TeamOf(ctx)) <= 12
    /\ \A i \in 1..Len(TeamOf(ctx)) :
          /\ TeamOf(ctx)[i] = InteractionJson(TeamRecords(p)[i])
          /\ DictGet(TeamOf(ctx)[i], "personality", JNone)
                 /= JStr(personalities[p].name)

ContextOfEveryPersona ==
    \A p \in Tags : HoldsTeamRecords(get_personality_context(Manager, p), p)

\* the step in which run() answers a consultation of p
ConsultStep(p) ==
    /\ pc = "loads"
    /\ Calls(line, "consult_personality")
    /\ PersonaOf(line) = JStr(p)
    /\ pc' = "readline"

\* the context a consultation or an acknowledgment builds is made of the
\* logs as they were: no other persona's log grows before it is built
ContextBuiltOnStep ==
    \A p \in Tags :
        (ConsultStep(p) \/ AssignStep(p)) => HoldsTeamRecords(context', p)

(***************************************************************************)
(* C19.  The context built for persona p contains, for each of the four    *)
(* other personas taken in enum order, the last min(3, length) records of  *)
(* that persona's log in their logged order, and no record of p's own log; *)
(* it never holds more than twelve records.                                *)
(***************************************************************************)
C19_ContextHoldsLastThreeOfOthers ==
    []ContextOfEveryPersona /\ [][ContextBuiltOnStep]_vars

\* after two consensus rounds every log has more than three records; the
\* analyst is consulted and its context holds twelve records, none its own
C19_Witness ==
    /\ pc = "readline"
    /\ Len(NonBlank) = 3
    /\ IsConsensus(NonBlank[1])
    /\ IsConsensus(NonBlank[2])
    /\ Calls(NonBlank[3], "consult_personality")
    /\ PersonaOf(NonBlank[3]) = JStr("analyst")
    /\ Len(TeamOf(context)) = 12
    /\ Len(LogOf("creative")) = 4
    /\ Len(LogOf("analyst")) = 6
    /\ TeamOf(context)[1] = InteractionJson(LogOf("manager")[Len(LogOf("manager")) - 2])
    /\ TeamOf(context)[4] = InteractionJson(LogOf("creative")[2])

(***************************************************************************)
(* Faults inside a handler.                                                *)
(***************************************************************************)
NamesPersona(l) == \E p \in Tags : PersonaOf(l) = JStr(p)

\* arguments.get on a value that is not a dict; get_personality_status does
\* not read its arguments
ArgumentsNotDict(l) ==
    /\ IsToolCall(l)
    /\ IsStr(ToolNameOf(l))
    /\ ToolNameOf(l).v \in ToolCatalog \ {"get_personality_status"}
    /\ ~IsDict(ArgumentsOf(l))

\* priority.upper() on a value that is not a str
PriorityNotStr(l) ==
    Calls(l, "assign_task") /\ NamesPersona(l) /\ ~IsStr(PriorityOf(l))

\* query[:100] on a number
QuestionIsNumber(l) ==
    /\ Calls(l, "consult_personality")
    /\ NamesPersona(l)
    /\ DictGet(ArgumentsOf(l), "question", JStr("")).t = "int"
    /\ ~HasKey(ArgumentsOf(l), "context")

\* ', '.join(focus_areas) on a number other than 0
FocusIsNumber(l) ==
    /\ Calls(l, "personality_feedback")
    /\ DictGet(ArgumentsOf(l), "focus_areas", JList(<<>>)).t = "int"
    /\ DictGet(ArgumentsOf(l), "focus_areas", JList(<<>>)).v /= 0

\* uri.startswith on a value that is not a str
UriNotStr(l) ==
    /\ StrEq(MethodOf(l), "resources/read")
    /\ IsDict(ParamsOf(l))
    /\ ~IsStr(DictGet(ParamsOf(l), "uri", JStr("")))

Faults(l) ==
    /\ IsRequest(l)
    /\ \/ HasUnknownMethod(l)
       \/ ParamsNotDict(l)
       \/ ArgumentsNotDict(l)
       \/ PriorityNotStr(l)
       \/ QuestionIsNumber(l)
       \/ FocusIsNumber(l)
       \/ UriNotStr(l)

\* str(e) of the exception the request raises
FaultMessage(l) ==
    CASE HasUnknownMethod(l) -> "Unknown method: " \o PyStr(MethodOf(l))
      [] ParamsNotDict(l) ->
           "'" \o ParamsOf(l).t \o "' object has no attribute 'get'"
      [] ArgumentsNotDict(l) ->
           "'" \o ArgumentsOf(l).t \o "' object has no attribute 'get'"
      [] PriorityNotStr(l) ->
           "'" \o PriorityOf(l).t \o "' object has no attribute 'upper'"
      [] QuestionIsNumber(l) -> "'int' object is not subscriptable"
      [] FocusIsNumber(l) -> "can only join an iterable"
      [] UriNotStr(l) ->
           "'" \o DictGet(ParamsOf(l), "uri", JStr("")).t
           \o "' object has no attribute 'startswith'"

FaultsAnswered ==
    \A k \in 1..Len(NonBlank) :
        IsRequest(NonBlank[k]) =>
            /\ LoopWentOn(k)
            /\ ~Answered(k) => (pc = "loads" /\ k = Len(NonBlank))
            /\ Answered(k) =>
                  /\ \/ IsResult(stdout[k + 1])
                     \/ IsError(stdout[k + 1], INTERNAL_ERROR)
                  /\ stdout[k + 1].id = RequestId(NonBlank[k])
                  /\ Faults(NonBlank[k]) =>
                        /\ IsError(stdout[k + 1], INTERNAL_ERROR)
                        /\ stdout[k + 1].error.message = FaultMessage(NonBlank[k])

\* one envelope for each line read, after the notification of the start
OneEnvelopeEach ==
    (pc = "readline" /\ \A k \in 1..Len(NonBlank) :
                            IsRequest(NonBlank[k]) \/ NonBlank[k].kind = "malformed")
    => Len(stdout) = Len(NonBlank) + 1

(***************************************************************************)
(* C20.  Any fault raised while handling a request that is a JSON object   *)
(* (params or arguments that are not objects, a priority that is not a     *)
(* string, ...) is caught and answered with one error envelope with code   *)
(* -32603 and the request's id, and the loop goes on to read and answer    *)
(* the next line.                                                          *)
(***************************************************************************)
C20_HandlerFaultsAnswered == FaultsAnswered /\ OneEnvelopeEach

\* a priority that is not a string and arguments that are not an object
\* were each answered with an error, and the consultation after them with a
\* result
C20_Witness ==
    /\ pc = "readline"
    /\ Len(NonBlank) = 3
    /\ Len(stdout) = 4
    /\ PriorityNotStr(NonBlank[1])
    /\ IsError(stdout[2], INTERNAL_ERROR)
    /\ stdout[2].id = JInt(3)
    /\ ArgumentsNotDict(NonBlank[2])
    /\ IsError(stdout[3], INTERNAL_ERROR)
    /\ stdout[3].id = JStr("a")
    /\ ~Faults(NonBlank[3])
    /\ IsResult(stdout[4])
    /\ stdout[4].id = JInt(10)

(***************************************************************************)
(* The life of the session.                                                *)
(***************************************************************************)
IsActive(session) ==
    /\ IsDict(session)
    /\ session /= JDict(<<>>)
    /\ DictGet(session, "status", JNone) = JStr("active")

\* a start_collaborative_session among the answered lines got a result
StartSucceeded ==
    \E j \in 1..AnsweredLines : IsStart(NonBlank[j]) /\ IsResult(stdout[j + 1])

ActiveOnceStarted == StartSucceeded => IsActive(collaborative_session)

StaysActive == IsActive(collaborative_session) => IsActive(collaborative_session')

(***************************************************************************)
(* C21.  The session is never closed or cleared: once a                    *)
(* start_collaborative_session has succeeded, in every later state the     *)
(* current session is non-empty and its status is "active", whatever       *)
(* requests follow.                                                        *)
(***************************************************************************)
C21_SessionStaysActive == []ActiveOnceStarted /\ [][StaysActive]_vars

\* a session was started, a consensus round and a faulting start followed:
\* the session is the one that was started and it is active
C21_Witness ==
    /\ pc = "readline"
    /\ Len(NonBlank) = 3
    /\ IsStart(NonBlank[1])
    /\ IsConsensus(NonBlank[2])
    /\ IsError(stdout[4], INTERNAL_ERROR)
    /\ IsActive(collaborative_session)
    /\ DictGet(collaborative_session, "topic", JNone) = TopicOf(NonBlank[1])

(***************************************************************************)
(* The notification of the start.                                          *)
(***************************************************************************)
IsNotification(envelope) ==
    /\ Fields(envelope) = {"jsonrpc", "method", "params"}
    /\ envelope.jsonrpc = "2.0"
    /\ envelope.method = "notifications/initialized"
    /\ envelope.params = <<>>

NotifiedOnce ==
    /\ pc = "start" => (stdout = <<>> /\ stdin = <<>>)
    /\ pc /= "start" => (Len(stdout) >= 1 /\ IsNotification(stdout[1]))
    /\ \A i \in 2..Len(stdout) : "method" \notin Fields(stdout[i])

\* a line is read, or an envelope is printed on a notified run, only when
\* the notification is there, and the notification stays
NotifiedFirst ==
    /\ stdin' /= stdin => (stdout /= <<>> /\ IsNotification(stdout[1]))
    /\ stdout /= <<>> => (Len(stdout') >= Len(stdout) /\ stdout'[1] = stdout[1])

(***************************************************************************)
(* C22.  At startup the server writes exactly one                          *)
(* notifications/initialized envelope, before it reads any input line and  *)
(* before any response envelope; the notification is never written again   *)
(* during the run.                                                         *)
(***************************************************************************)
C22_NotifiedOnceAtStart == []NotifiedOnce /\ [][NotifiedFirst]_vars

\* three lines were read and answered: four envelopes, the first one the
\* notification and no other
C22_Witness ==
    /\ Len(NonBlank) = 3
    /\ Len(stdout) = 4
    /\ IsNotification(stdout[1])
    /\ \A i \in 2..4 : IsResult(stdout[i]) \/ IsError(stdout[i], INTERNAL_ERROR)
                       \/ IsError(stdout[i], PARSE_ERROR)
    /\ \E i \in 2..4 : IsResult(stdout[i])
    /\ \E i \in 2..4 : IsError(stdout[i], PARSE_ERROR)

(***************************************************************************)
(* The requests of the test client.                                        *)
(***************************************************************************)
ClientAnswered ==
    \A k \in 1..Len(NonBlank) :
        (NonBlank[k] \in ClientRequests /\ Answered(k)) =>
            /\ IsResult(stdout[k + 1])
            /\ "error" \notin Fields(stdout[k + 1])
            /\ stdout[k + 1].id = RequestId(NonBlank[k])

\* a request of the client that is being handled is answered in that step
ClientStep ==
    (pc = "loads" /\ line \in ClientRequests) =>
        (pc' = "readline" /\ Len(stdout') = Len(stdout) + 1)

ErrorStep ==
    /\ pc = "loads"
    /\ IsRequest(line)
    /\ pc' = "readline"
    /\ IsError(stdout'[Len(stdout')], INTERNAL_ERROR)

ErrorKeepsState ==
    ErrorStep => UNCHANGED <<personalities, collaborative_session, session_history>>

(***************************************************************************)
(* C24.  Whenever a request is answered with an error envelope (code       *)
(* -32603), the persona logs, task lists, last-activity values, current    *)
(* session and shared history are exactly what they were before that       *)
(* request, also for tools/call arguments whose values are not strings     *)
(* (a numeric question with no context in consult_personality).            *)
(***************************************************************************)
C24_ErrorLeavesStateUnchanged == [][ErrorKeepsState]_vars

QueryCount(h) == Cardinality({i \in 1..Len(h) : h[i].type = "query"})

ResponseCount(h) == Cardinality({i \in 1..Len(h) : h[i].type = "response"})

QueriesAnswered ==
    pc = "readline" =>
        /\ \A i \in 1..Len(session_history) :
              session_history[i].type = "query" =>
                  /\ i < Len(session_history)
                  /\ session_history[i + 1].type = "response"
                  /\ session_history[i + 1].personality = session_history[i].personality
        /\ QueryCount(session_history) = ResponseCount(session_history)
        /\ \A p \in Tags : QueryCount(LogOf(p)) = ResponseCount(LogOf(p))

(***************************************************************************)
(* C25.  After every fully processed request, each record of type query in *)
(* the shared history is immediately followed by a record of type response *)
(* with the same persona name, so the number of query records equals the   *)
(* number of response records in the shared history and in each persona's  *)
(* log.                                                                    *)
(***************************************************************************)
C25_EveryQueryHasItsResponse == QueriesAnswered

(***************************************************************************)
(* Requests that only read.                                                *)
(***************************************************************************)
ReadsOnly(l) ==
    /\ IsRequest(l)
    /\ \/ HasUnknownMethod(l)
       \/ MethodOf(l).v \in {"initialize", "tools/list", "resources/list",
                             "resources/read"}
       \/ NamesUnknownTool(l)
       \/ IsToolCall(l) /\ StrEq(ToolNameOf(l), "get_personality_status")

\* the step in which run() handles a request that only reads
ReadStep == pc = "loads" /\ ReadsOnly(line) /\ pc' = "readline"

ReadKeepsState ==
    ReadStep =>
        /\ UNCHANGED <<personalities, collaborative_session, session_history>>
        /\ Len(stdout') = Len(stdout) + 1

(***************************************************************************)
(* C26.  The requests initialize, tools/list, resources/list,              *)
(* resources/read (any uri, known or unknown), tools/call                  *)
(* get_personality_status, tools/call with an unknown tool name, and any   *)
(* request with an unknown method leave all persona logs, task lists,      *)
(* last-activity values, the current session and the shared history        *)
(* unchanged.                                                              *)
(***************************************************************************)
C26_ReadRequestsChangeNothing == [][ReadKeepsState]_vars

\* a session was started and a task assigned; the status report that
\* followed was answered and the logs, the task and the session are there
C26_Witness ==
    /\ pc = "readline"
    /\ Len(NonBlank) = 3
    /\ IsStart(NonBlank[1])
    /\ AssignsTo(NonBlank[2], "implementer")
    /\ ReadsOnly(NonBlank[3])
    /\ IsStatus(NonBlank[3])
    /\ IsResult(stdout[4])
    /\ Len(session_history) = 10
    /\ personalities["implementer"].tasks_assigned = <<"[MEDIUM] Build API">>
    /\ IsActive(collaborative_session)

(***************************************************************************)
(* Calls that name no persona of the registry.                             *)
(***************************************************************************)
\* the step in which run() handles a consult_personality or assign_task call
\* whose personality is not one of the five tags
UnknownPersonaStep ==
    pc = "loads" /\ NamesUnknownPersona(line) /\ pc' = "readline"

UnknownPersonaKeepsState ==
    UnknownPersonaStep =>
        /\ UNCHANGED <<personalities, collaborative_session, session_history>>
        /\ Len(stdout') = Len(stdout) + 1

(***************************************************************************)
(* C27.  consult_personality and assign_task called with a persona name    *)
(* outside the five tags change nothing: no task is appended to any task   *)
(* list, no record is added to any persona log or to the shared history,   *)
(* and no last-activity value or session field changes.                    *)
(***************************************************************************)
C27_UnknownPersonaChangesNothing == [][UnknownPersonaKeepsState]_vars

\* after a consultation of the analyst, a task for "Builder" and a question
\* to "wizard" were answered: the history holds the analyst's two records
C27_Witness ==
    /\ pc = "readline"
    /\ Len(NonBlank) = 3
    /\ Calls(NonBlank[1], "consult_personality")
    /\ ~NamesUnknownPersona(NonBlank[1])
    /\ Calls(NonBlank[2], "assign_task")
    /\ NamesUnknownPersona(NonBlank[2])
    /\ Calls(NonBlank[3], "consult_personality")
    /\ PersonaOf(NonBlank[3]) = JStr("wizard")
    /\ Len(stdout) = 4
    /\ Len(session_history) = 2
    /\ \A p \in Tags : personalities[p].tasks_assigned = <<>>
    /\ personalities["manager"].last_activity = JNone

(***************************************************************************)
(* The records of a session start.                                         *)
(***************************************************************************)
\* the step in which run() answers a start_collaborative_session call
StartStep == pc = "loads" /\ IsStart(line) /\ pc' = "readline"

StartRecords ==
    StartStep =>
        /\ Len(Appended) = 7
        /\ \A i \in 1..5 :
              /\ Appended[i].type = "session_start"
              /\ Appended[i].personality
                     = <<"Director", "Logic", "Spark", "Guardian", "Builder">>[i]
              /\ Appended[i].content
                     = JStr("New collaborative session started: "
                            \o PyStr(TopicOf(line)))
        /\ Appended[6].type = "query"
        /\ Appended[6].personality = "Director"
        /\ Appended[6].content
               = JStr("A new collaborative session has started. Topic: "
                      \o PyStr(TopicOf(line)) \o ". Initial request: "
                      \o PyStr(InitialRequestOf(line))
                      \o ". Please coordinate the team response.")
        /\ Appended[7].type = "response"
        /\ Appended[7].personality = "Director"
        /\ SubSeq(session_history', 1, Len(session_history)) = session_history
        \* the session the manager's context was built with is the new one,
        \* and the context holds the session_start records of the others
        /\ collaborative_session' = SessionRecord(TopicOf(line), InitialRequestOf(line), now)
        /\ DictGet(context', "session_context", JNone) = collaborative_session'
        /\ Len(TeamOf(context')) >= 4
        /\ TeamOf(context')[Len(TeamOf(context'))] = InteractionJson(Appended[5])

(***************************************************************************)
(* C28.  One start_collaborative_session call appends exactly 7 records to *)
(* the shared history, in this order: one session_start record for each    *)
(* persona in the order manager, analyst, creative, critic, implementer,   *)
(* then the manager's query record and the manager's response record; the  *)
(* session record is already replaced when these records are logged.       *)
(***************************************************************************)
C28_StartAppendsSevenRecords == [][StartRecords]_vars

\* a second session is started after a consultation: nine records, the
\* last seven those of the second start
C28_Witness ==
    /\ pc = "readline"
    /\ Len(NonBlank) = 2
    /\ Calls(NonBlank[1], "consult_personality")
    /\ IsStart(NonBlank[2])
    /\ Len(session_history) = 9
    /\ session_history[3].type = "session_start"
    /\ session_history[3].personality = "Director"
    /\ session_history[7].personality = "Builder"
    /\ session_history[8].type = "query"
    /\ session_history[9].type = "response"
    /\ DictGet(context, "session_context", JNone) = collaborative_session

(***************************************************************************)
(* The session identifier.                                                 *)
(***************************************************************************)
\* the identifier in the text that answers the k-th line, a start call:
\* "Collaborative session started (ID: session_YYYYMMDD_HHMMSS)"
IdOf(k) == SubSeq(stdout[k + 1].result.content[1].text, 36, 58)

\* the timestamp of the first record the k-th line, a start call, logged,
\* on a run whose only requests are start calls
StampOf(k) == session_history[7 * (Cardinality(StartsUpTo(k)) - 1) + 1].timestamp

\* "YYYY-MM-DDTHH:MM:SS" of a timestamp, and its digits as strftime puts them
WholeSecond(stamp) == SubSeq(stamp, 1, 19)

IdDigits(stamp) ==
    SubSeq(stamp, 1, 4) \o SubSeq(stamp, 6, 7) \o SubSeq(stamp, 9, 10) \o "_"
    \o SubSeq(stamp, 12, 13) \o SubSeq(stamp, 15, 16) \o SubSeq(stamp, 18, 19)

IdFollowsSecond ==
    /\ \A k \in StartsUpTo(AnsweredLines) :
          /\ IsResult(stdout[k + 1])
          /\ StartsWith(stdout[k + 1].result.content[1].text,
                        "Collaborative session started (ID: session_")
          /\ IdOf(k) = "session_" \o IdDigits(StampOf(k))
          /\ SubSeq(stdout[k + 1].result.content[1].text, 59, 59) = ")"
    /\ \A j, k \in StartsUpTo(AnsweredLines) :
          (IdOf(j) = IdOf(k)) <=> (WholeSecond(StampOf(j)) = WholeSecond(StampOf(k)))

(***************************************************************************)
(* C29.  The session identifier is determined by the clock reading at      *)
(* whole-second resolution alone: two start_collaborative_session calls    *)
(* made at different clock seconds get different identifiers, and two      *)
(* calls made within the same clock second get the same identifier even    *)
(* when their topics differ.                                               *)
(***************************************************************************)
C29_SessionIdIsTheClockSecond == IdFollowsSecond

\* three starts: the first two within one second, at different instants
\* and with different topics, the third a second later
C29_Witness ==
    /\ pc = "readline"
    /\ Len(NonBlank) = 3
    /\ StartsUpTo(3) = {1, 2, 3}
    /\ AnsweredLines = 3
    /\ TopicOf(NonBlank[1]) /= TopicOf(NonBlank[2])
    /\ StampOf(1) /= StampOf(2)
    /\ IdOf(1) = IdOf(2)
    /\ IdOf(3) /= IdOf(2)
    /\ WholeSecond(StampOf(3)) /= WholeSecond(StampOf(2))

=============================================================================
